---- MODULE Spec2Model ----
(***************************************************************************)
(* WXYC archive player: the deep-link session controller (app/page.tsx),   *)
(* the playback engine (components/audio-player.tsx), the access window    *)
(* policy (config/archive.ts) and the signed-URL collaborator.             *)
(*                                                                         *)
(* Time.  A JavaScript Date is modelled as an integer number of clock      *)
(* ticks since local midnight of Jan 1 2024 (HourTicks ticks per hour).    *)
(* Dates before 2024 are negative.  Daylight-saving shifts are not         *)
(* modelled: every local day has 24 hours.                                 *)
(***************************************************************************)
EXTENDS Integers, Sequences, FiniteSets, TLC

\* Clock resolution: ticks per hour.  With 2 the clock can stand on the
\* hour or half past it, so "now" need not coincide with an hour boundary.
HourTicks == 2

HoursPerDay == 24

DayTicks == HoursPerDay * HourTicks

\* null / undefined of the source.  Nullable values are tuples: a string
\* s is <<s>>, a key is <<day, hour>>.
NULL == <<>>

\* An integer no calendar or clock field of the model takes.
NaN == 0 - 1000000

----------------------------------------------------------------------------
(* JavaScript Date arithmetic used by the source.                          *)

LeapsThrough(y) == (y \div 4) - (y \div 100) + (y \div 400)

IsLeap(y) == (y % 4 = 0 /\ y % 100 # 0) \/ y % 400 = 0

\* Days from Jan 1 2024 to Jan 1 of year y.
DaysBeforeYear(y) == 365 * (y - 2024) + LeapsThrough(y - 1) - LeapsThrough(2023)

\* m is a 0-based month index in 0..11.
DaysBeforeMonth(y, m) ==
    LET cum == <<0, 31, 59, 90, 120, 151, 181, 212, 243, 273, 304, 334>>
    IN  cum[m + 1] + (IF m >= 2 /\ IsLeap(y) THEN 1 ELSE 0)

\* new Date(year, monthIndex, day[, hour]): local time, out-of-range month,
\* day and hour roll over into the adjacent year, month and day; a year in
\* 0..99 means 1900 + year; a NaN field gives an invalid Date (NaN).
MakeDate(year, monthIndex, day, hour) ==
    IF year = NaN \/ monthIndex = NaN \/ day = NaN \/ hour = NaN THEN NaN
    ELSE LET y0 == IF year \in 0..99 THEN 1900 + year ELSE year
             yy == y0 + (monthIndex \div 12)
             mm == monthIndex % 12
             dn == DaysBeforeYear(yy) + DaysBeforeMonth(yy, mm) + (day - 1)
         IN  dn * DayTicks + hour * HourTicks

\* The local calendar day number of a Date, and its time of day in ticks.
DayOf(date) == date \div DayTicks

TimeOfDay(date) == date % DayTicks

\* d.setDate(d.getDate() + k): same time of day, k days later.
AddDays(date, k) == date + k * DayTicks

\* d.setHours(h, 0, 0, 0)
SetHours(date, h) == DayOf(date) * DayTicks + h * HourTicks

\* getFullYear / getMonth (0-based) / getDate of a Date.  The year is
\* searched around the estimate that counts 146097 days to 400 years.
GetFullYear(date) ==
    LET est == 2024 + ((DayOf(date) * 400) \div 146097)
    IN  CHOOSE y \in (est - 1)..(est + 1) :
            DaysBeforeYear(y) <= DayOf(date) /\ DayOf(date) < DaysBeforeYear(y + 1)

GetMonth(date) ==
    LET y == GetFullYear(date)
        doy == DayOf(date) - DaysBeforeYear(y)
    IN  CHOOSE m \in 0..11 :
            /\ DaysBeforeMonth(y, m) <= doy
            /\ (m = 11 \/ doy < DaysBeforeMonth(y, m + 1))

GetDate(date) ==
    LET y == GetFullYear(date)
    IN  DayOf(date) - DaysBeforeYear(y) - DaysBeforeMonth(y, GetMonth(date)) + 1

----------------------------------------------------------------------------
(* config/archive.ts                                                       *)

\* ArchiveConfig.dateRange.days of the two configurations.
defaultConfig == 14

djConfig == 90

\* getDateRange(config), evaluated when the clock reads `clock`:
\* today = new Date(); startDate = new Date() moved back config days.
getDateRange(config, clock) ==
    [today |-> clock, startDate |-> AddDays(clock, 0 - config)]

\* OutsideRange without its lower bound.
OutsideRangeNoLowerBound(date, range) == date > range.today

\* The range test the source writes at every check site:
\*   date > today || date < startDate
OutsideRange(date, range) == date > range.today \/ date < range.startDate

selectedConfig(auth) == IF auth THEN djConfig ELSE defaultConfig

----------------------------------------------------------------------------
(* The t query parameter.  A string is the sequence of its characters,     *)
(* each a one-character string; the empty string and an absent parameter   *)
(* are both NULL (both are falsy wherever the source tests them).          *)

DigitChars == <<"0", "1", "2", "3", "4", "5", "6", "7", "8", "9">>

\* The string whose characters are the given decimal digits.
Chars(digits) == [i \in DOMAIN digits |-> DigitChars[digits[i] + 1]]

IsDigit(c) == c \in {"0", "1", "2", "3", "4", "5", "6", "7", "8", "9"}

DigitVal(c) == (CHOOSE d \in 1..10 : DigitChars[d] = c) - 1

\* Number.prototype.toString() of an integer or NaN.
RECURSIVE NumToString(_)
NumToString(n) ==
    IF n = NaN THEN <<"N", "a", "N">>
    ELSE IF n < 0 THEN <<"-">> \o NumToString(0 - n)
    ELSE IF n < 10 THEN <<DigitChars[n + 1]>>
    ELSE NumToString(n \div 10) \o <<DigitChars[(n % 10) + 1]>>

\* str.padStart(2, "0")
PadStart2(str) == IF Len(str) >= 2 THEN str ELSE <<"0">> \o str

\* str.slice(from, to) for 0 <= from <= to <= str.length
Slice(str, from, to) == SubSeq(str, from + 1, to)

\* The value of the longest prefix of decimal digits, given the value read
\* so far.
RECURSIVE ReadDigits(_, _)
ReadDigits(str, acc) ==
    IF str = <<>> \/ ~IsDigit(Head(str)) THEN acc
    ELSE ReadDigits(Tail(str), 10 * acc + DigitVal(Head(str)))

\* parseInt(str): an optional sign, then the longest prefix of digits; NaN
\* when there is none.
ParseInt(str) ==
    LET neg == str # <<>> /\ Head(str) = "-"
        rest == IF str # <<>> /\ Head(str) \in {"-", "+"} THEN Tail(str) ELSE str
    IN  IF rest = <<>> \/ ~IsDigit(Head(rest)) THEN NaN
        ELSE IF neg THEN 0 - ReadDigits(rest, 0) ELSE ReadDigits(rest, 0)

\* x - 1 in JavaScript numbers: NaN - 1 is NaN.
Minus1(x) == IF x = NaN THEN NaN ELSE x - 1

\* The hour, minute and second come back as strings (hour.toString()) and
\* are read with parseInt wherever they are used: kept as numbers here.
parseTimestamp(ts) ==
    IF ts = NULL \/ Len(ts) # 14 THEN NULL
    ELSE LET year == ParseInt(Slice(ts, 0, 4))
             month == Minus1(ParseInt(Slice(ts, 4, 6)))
             day == ParseInt(Slice(ts, 6, 8))
             hour == ParseInt(Slice(ts, 8, 10))
             minute == ParseInt(Slice(ts, 10, 12))
             second == ParseInt(Slice(ts, 12, 14))
             date == MakeDate(year, month, day, 0)
         IN  IF date = NaN THEN NULL
             ELSE [date |-> date, hour |-> hour, minute |-> minute,
                   second |-> second]

\* createTimestamp with the month left unpadded.
createTimestampMonthUnpadded(date, hour, minute, second) ==
    NumToString(GetFullYear(date))
        \o NumToString(GetMonth(date) + 1)
        \o PadStart2(NumToString(GetDate(date)))
        \o PadStart2(NumToString(hour))
        \o PadStart2(NumToString(minute))
        \o PadStart2(NumToString(second))

createTimestamp(date, hour, minute, second) ==
    NumToString(GetFullYear(date))
        \o PadStart2(NumToString(GetMonth(date) + 1))
        \o PadStart2(NumToString(GetDate(date)))
        \o PadStart2(NumToString(hour))
        \o PadStart2(NumToString(minute))
        \o PadStart2(NumToString(second))

\* const initialState = timestamp ? parseTimestamp(timestamp) : null
initialStateOf(ts) == IF ts # NULL THEN parseTimestamp(ts) ELSE NULL

\* LinkReason that always checks against the default window.
LinkReasonDefaultWindow(ts, auth, clock, dismissed) ==
    LET init == initialStateOf(ts)
        allowed == getDateRange(defaultConfig, clock)
        dj == getDateRange(djConfig, clock)
    IN  IF ts = NULL \/ init = NULL \/ dismissed THEN NULL
        ELSE IF OutsideRange(init.date, allowed)
             THEN IF ~auth /\ init.date >= dj.startDate /\ init.date <= dj.today
                  THEN <<"login">>
                  ELSE <<"out_of_range">>
             ELSE NULL

\* The body of the out-of-range effect: the value it gives invalidLinkReason
\* when the page renders with this timestamp, auth state and clock.
LinkReason(ts, auth, clock, dismissed) ==
    LET init == initialStateOf(ts)
        allowed == getDateRange(selectedConfig(auth), clock)
        dj == getDateRange(djConfig, clock)
    IN  IF ts = NULL \/ init = NULL \/ dismissed THEN NULL
        ELSE IF OutsideRange(init.date, allowed)
             THEN IF ~auth /\ init.date >= dj.startDate /\ init.date <= dj.today
                  THEN <<"login">>
                  ELSE <<"out_of_range">>
             ELSE NULL

\* updateUrl: the timestamp router.push is called with, or NULL when the
\* date is outside the allowed range and nothing is pushed.
updateUrl(date, hour, minute, second, auth, clock) ==
    IF OutsideRange(date, getDateRange(selectedConfig(auth), clock)) THEN NULL
    ELSE createTimestamp(date, hour, minute, second)

----------------------------------------------------------------------------
(* lib/utils.ts getArchiveUrl and the signed-URL endpoint.                 *)

\* The key with the hour left unpadded.
ArchiveKeyHourUnpadded(date, hour) ==
    LET year == NumToString(GetFullYear(date))
        month == PadStart2(NumToString(GetMonth(date) + 1))
        day == PadStart2(NumToString(GetDate(date)))
        hourStr == NumToString(hour)
    IN  year \o <<"/">> \o month \o <<"/">> \o day \o <<"/">>
            \o year \o month \o day \o hourStr
            \o <<"0", "0", ".", "m", "p", "3">>

\* const key = `${year}/${month}/${day}/${year}${month}${day}${hourStr}00.mp3`
\* A signed url is identified by the key it is signed for.
ArchiveKey(date, hour) ==
    LET year == NumToString(GetFullYear(date))
        month == PadStart2(NumToString(GetMonth(date) + 1))
        day == PadStart2(NumToString(GetDate(date)))
        hourStr == PadStart2(NumToString(hour))
    IN  year \o <<"/">> \o month \o <<"/">> \o day \o <<"/">>
            \o year \o month \o day \o hourStr
            \o <<"0", "0", ".", "m", "p", "3">>

\* A call of getArchiveUrl as updateAudioUrl makes it: the arguments, the
\* key built from them, and whether the timestamp captured by the closure
\* is truthy.
ResolverCall(date, hour, auth, ts) ==
    [date |-> date, hour |-> hour, key |-> ArchiveKey(date, hour),
     auth |-> auth, auto |-> ts # NULL]

\* The fetch getArchiveUrl issues: its headers, and the fields of its JSON
\* body.  The third argument only adds isAuthenticated: true to the body.
getArchiveRequest(key, isAuthenticated) ==
    [headers |-> {<<"Content-Type", <<"application/json">>>>},
     body |-> IF isAuthenticated
                 THEN [key |-> key, isAuthenticated |-> TRUE]
                 ELSE [key |-> key]]

\* request.headers.get(name): the header's value, or NULL.
HeaderGet(headers, name) ==
    IF \E h \in headers : h[1] = name
    THEN (CHOOSE h \in headers : h[1] = name)[2]
    ELSE NULL

\* verifyToken.  A token is the outcome jose.jwtVerify has for it ("valid",
\* "expired", "claim", "signature" or "other") and the role of its payload
\* (NULL when the payload carries none).
verifyToken(token) ==
    IF token.verify = "valid"
    THEN [authenticated |-> TRUE, role |-> token.role, error |-> NULL]
    ELSE [authenticated |-> FALSE, role |-> NULL,
          error |-> IF token.verify = "expired" THEN <<"Token expired">>
                    ELSE IF token.verify = "claim"
                         THEN <<"Token validation failed">>
                    ELSE IF token.verify = "signature"
                         THEN <<"Invalid signature">>
                    ELSE <<"Token verification failed">>]

\* verifyAuthHeader.  A header value is <<scheme, token>>: "Bearer " followed
\* by a token, "Bearer " followed by nothing (token NULL), or another scheme.
verifyAuthHeader(authHeader) ==
    IF authHeader = NULL
    THEN [authenticated |-> FALSE, role |-> NULL,
          error |-> <<"No authorization header">>]
    ELSE IF authHeader[1] # "Bearer"
    THEN [authenticated |-> FALSE, role |-> NULL,
          error |-> <<"Invalid authorization format">>]
    ELSE IF authHeader[2] = NULL
    THEN [authenticated |-> FALSE, role |-> NULL,
          error |-> <<"No token provided">>]
    ELSE verifyToken(authHeader[2])

\* Authorization.DJ and roleToAuthorization of @wxyc/shared, with the ranks
\* the endpoint's test gives them.
AuthorizationDJ == 1

roleToAuthorization(role) ==
    IF role = NULL THEN 0
    ELSE IF role = <<"admin">> THEN 4
    ELSE IF role = <<"stationManager">> THEN 3
    ELSE IF role = <<"musicDirector">> THEN 2
    ELSE IF role = <<"dj">> THEN 1
    ELSE 0

\* The endpoint's pattern /(\d{4})\/(\d{2})\/(\d{2})\/\d{8}(\d{2})00\.mp3/:
\* "d" stands for \d, every other element for itself.
KeyPattern ==
    <<"d", "d", "d", "d", "/", "d", "d", "/", "d", "d", "/",
      "d", "d", "d", "d", "d", "d", "d", "d", "d", "d",
      "0", "0", ".", "m", "p", "3">>

\* The pattern matches the key at offset i.
MatchesAt(key, i) ==
    /\ i + Len(KeyPattern) <= Len(key)
    /\ \A j \in 1..Len(KeyPattern) :
          IF KeyPattern[j] = "d" THEN IsDigit(key[i + j])
          ELSE key[i + j] = KeyPattern[j]

\* key.match(pattern): the four groups of the leftmost match, or NULL.
dateMatch(key) ==
    LET offsets == {i \in 0..(Len(key) - Len(KeyPattern)) : MatchesAt(key, i)}
    IN  IF offsets = {} THEN NULL
        ELSE LET i == CHOOSE o \in offsets : \A o2 \in offsets : o <= o2
             IN  [year |-> SubSeq(key, i + 1, i + 4),
                  month |-> SubSeq(key, i + 6, i + 7),
                  day |-> SubSeq(key, i + 9, i + 10),
                  hour |-> SubSeq(key, i + 20, i + 21)]

\* fileDate with the month taken as a 0-based index.
fileDateOfMonthNotShifted(match) ==
    MakeDate(ParseInt(match.year), ParseInt(match.month),
             ParseInt(match.day), ParseInt(match.hour))

\* new Date(parseInt(year), parseInt(month) - 1, parseInt(day), parseInt(hour))
\* for the groups g of the match (bound once, as the destructuring does).
fileDateOf(match) ==
    CHOOSE fileDate \in
        { MakeDate(ParseInt(g.year), Minus1(ParseInt(g.month)),
                   ParseInt(g.day), ParseInt(g.hour)) : g \in {match} } : TRUE

\* DJ access for every verified token, whatever its role.
hasDJAccessAnyRole(verifyResult) == verifyResult.authenticated

\* verifyResult.authenticated &&
\*     roleToAuthorization(verifyResult.role) >= Authorization.DJ
hasDJAccess(verifyResult) ==
    /\ verifyResult.authenticated
    /\ roleToAuthorization(verifyResult.role) >= AuthorizationDJ

\* A JSON response of the endpoint.
Response(status, error, url) == [status |-> status, error |-> error, url |-> url]

\* The endpoint's POST handler, for a request received at `clock` by a
\* module whose S3 client was created or not (s3), with getSignedUrl
\* succeeding or throwing (signs).  A signed url is identified by its key.
POST(req, clock, s3, signs) ==
    IF "key" \notin DOMAIN req.body \/ req.body.key = <<>>
    THEN Response(400, <<"Key is required">>, NULL)
    ELSE IF ~s3
    THEN Response(500, <<"S3 client not initialized">>, NULL)
    ELSE LET match == dateMatch(req.body.key)
         IN  IF match = NULL
             THEN Response(400, <<"Invalid file key format">>, NULL)
             ELSE LET verifyResult ==
                          verifyAuthHeader(HeaderGet(req.headers, "Authorization"))
                      config == IF hasDJAccess(verifyResult)
                                   THEN djConfig ELSE defaultConfig
                  IN  IF OutsideRange(fileDateOf(match),
                                      getDateRange(config, clock))
                      THEN Response(403,
                               <<"File is outside the allowed date range">>, NULL)
                      ELSE IF signs
                      THEN Response(200, NULL, req.body.key)
                      ELSE Response(500, <<"Failed to generate signed URL">>,
                                    NULL)

\* The endpoint answers getArchiveUrl's request for this call with a url.
ServerAdmits(call, clock) ==
    POST(getArchiveRequest(call.key, call.auth), clock, TRUE, TRUE).status = 200

----------------------------------------------------------------------------
(* Bounds and inputs of the model.                                         *)

\* The clock may advance by at most this many ticks in a behaviour.
MaxTicks == 1

\* At most this many changes of the selection in a behaviour.
MaxNav == 1

\* At most this many resolver calls are in flight at a time.
MaxInFlight == 2

\* At most this many keyboard seeks in a behaviour.
MaxKeys == 2

\* Bound on the canplay listeners pending on the audio element.
MaxListeners == 1

\* The duration in seconds the media element reports for a recording.
Duration == 1850

\* "Today" of the model: Jan 20 2024, local midnight.
Today == MakeDate(2024, 0, 20, 0)

\* Clock readings at page load: exactly midnight, and half past ten.
ClockChoices == {Today, Today + 10 * HourTicks + 1}

\* The t parameter at page load: absent, of the wrong length, not decodable,
\* and well-formed links to days on either side of each window boundary.
LinkChoices ==
    { NULL, Chars(<<2, 0, 2, 4>>),
      Chars(<<2, 0, 2, 4, 0, 1, 2, 1, 0, 9, 0, 0, 0, 0>>),
      Chars(<<2, 0, 2, 4, 0, 1, 2, 0, 1, 0, 3, 0, 4, 5>>),
      Chars(<<2, 0, 2, 4, 0, 1, 0, 7, 0, 0, 0, 0, 0, 0>>),
      Chars(<<2, 0, 2, 4, 0, 1, 0, 6, 2, 3, 0, 0, 0, 0>>),
      Chars(<<2, 0, 2, 3, 1, 0, 2, 2, 1, 4, 0, 0, 0, 0>>) }

\* Days offered by the calendar widget and hours offered by the hour list.
PickDays == {DayOf(Today) - d : d \in {0, 13, 14, 90}}

PickHours == {0, 23}

----------------------------------------------------------------------------
VARIABLES
    now,                \* the wall clock (new Date())
    today,              \* `today` of the page's last render
    isAuthenticated,    \* useAuth().isAuthenticated
    timestamp,          \* searchParams.get("t")
    pendingNav,         \* the URL last handed to router.push, not yet current
    selectedDate, selectedHour, selectedMinute, selectedSecond,
    audioUrl, isPlaying, archiveSelected, isLoadingUrl,
    invalidLinkReason, userDismissed,
    inflight,           \* getArchiveUrl calls that have not settled
    isLoading, error, isTransitioning,      \* AudioPlayer state
    canplayListeners,   \* pending canplay handlers, in order of registration
    currentTime,        \* playback position in seconds (element and state)
    mediaDuration,      \* the media element's duration, NaN without metadata
    duration,           \* the player's duration state
    isMuted,            \* the player's isMuted state
    uncaught,           \* exceptions and promise rejections nothing has caught
    keys,               \* bound counter of keyboard seeks
    includeTime,        \* ShareDialog: include current playback position
    authLoading,        \* useAuth().isLoading
    session, user,      \* AuthProvider: the session and the user it holds
    s3Client,           \* the endpoint module's S3 client was created
    request, response,  \* the request the endpoint serves and its answer
    ticks, navs,        \* bound counters
    last                \* the last operation and the selection it started from

vars == <<now, today, isAuthenticated, timestamp, pendingNav, selectedDate,
          selectedHour, selectedMinute, selectedSecond, audioUrl, isPlaying,
          archiveSelected, isLoadingUrl, invalidLinkReason, userDismissed,
          inflight, isLoading, error, isTransitioning, canplayListeners,
          currentTime, mediaDuration, duration, isMuted, keys, includeTime, authLoading,
          s3Client, request, response, uncaught, session, user, ticks, navs,
          last>>

serverVars == <<s3Client, request, response>>

authVars == <<session, user>>

pageSel == <<selectedDate, selectedHour>>

\* yesterday = new Date(today); setDate(getDate() - 1); setHours(12, 0, 0, 0)
yesterdayOf(clock) == SetHours(AddDays(clock, 0 - 1), 12)

\* router.push(url): pushing the current URL changes nothing; a push that
\* updateUrl skipped (NULL) leaves the pending navigation as it was.
Push(url, cur, pending) ==
    IF url = NULL THEN pending ELSE IF url = cur THEN NULL ELSE url

\* The updateAudioUrl effect up to its await.
Launch(calls, date, hour, auth, ts, sel) ==
    IF sel THEN calls \cup {ResolverCall(date, hour, auth, ts)} ELSE calls

\* The page after its first render and the effects of that render, loaded
\* at a clock reading of `clocks` with a t parameter of `links`.
Load(clocks, links) ==
    /\ now \in clocks
    /\ today = now
    /\ isAuthenticated = FALSE
    /\ timestamp \in links
    /\ LET init == initialStateOf(timestamp)
       IN  /\ selectedDate = IF init # NULL THEN init.date ELSE yesterdayOf(now)
           /\ selectedHour = IF init # NULL THEN init.hour ELSE 12
           /\ selectedMinute = IF init # NULL THEN init.minute ELSE 0
           /\ selectedSecond = IF init # NULL THEN init.second ELSE 0
    /\ audioUrl = NULL
    /\ isPlaying = FALSE
    /\ archiveSelected = (timestamp # NULL)
    /\ isLoadingUrl = archiveSelected
    /\ invalidLinkReason = LinkReason(timestamp, FALSE, now, FALSE)
    /\ userDismissed = FALSE
    /\ pendingNav = Push(updateUrl(selectedDate, selectedHour, selectedMinute,
                                   selectedSecond, FALSE, now), timestamp, NULL)
    /\ inflight = Launch({}, selectedDate, selectedHour, FALSE, timestamp,
                         archiveSelected)
    /\ isLoading = FALSE
    /\ error = NULL
    /\ isTransitioning = FALSE
    /\ canplayListeners = <<>>
    /\ currentTime = 0
    /\ mediaDuration = NaN
    /\ duration = 0
    /\ isMuted = FALSE
    /\ keys = 0
    /\ includeTime = FALSE
    /\ authLoading = TRUE
    /\ uncaught = {}
    /\ session = NULL
    /\ user = NULL
    /\ s3Client = TRUE
    /\ request = NULL
    /\ response = NULL
    /\ ticks = 0
    /\ navs = 0
    /\ last = <<"load">>

Init == Load(ClockChoices, LinkChoices)

----------------------------------------------------------------------------
(* Shared pieces of the actions.                                           *)

playerVars == <<isLoading, error, isTransitioning, canplayListeners,
               currentTime, mediaDuration, duration, isMuted, keys>>

\* A render of the page: `today` is read from the clock and the
\* out-of-range effect recomputes the banner.
Render ==
    /\ today' = now
    /\ invalidLinkReason' =
           LinkReason(timestamp', isAuthenticated', now, userDismissed')

\* The selection becomes (date, hour): setSelectedDate/setSelectedHour, then
\* the effects keyed on them, updateUrl and updateAudioUrl.
SetSelection(date, hour) ==
    /\ selectedDate' = date
    /\ selectedHour' = hour
    /\ pendingNav' = Push(updateUrl(date, hour, selectedMinute, selectedSecond,
                                    isAuthenticated, now), timestamp, pendingNav)
    /\ inflight' = Launch(inflight, date, hour, isAuthenticated, timestamp,
                          archiveSelected)
    /\ Cardinality(inflight') <= MaxInFlight
    /\ isLoadingUrl' = (archiveSelected \/ isLoadingUrl)
    /\ navs < MaxNav
    /\ navs' = navs + 1

\* The audioUrl effect with a null branch that leaves isPlaying alone.
UrlEffectNullKeepsPlaying(url, changed, playing) ==
    IF ~changed
    THEN [isLoading |-> isLoading, error |-> error, isPlaying |-> playing,
          currentTime |-> currentTime, mediaDuration |-> mediaDuration,
          duration |-> duration]
    ELSE [isLoading |-> url # NULL, error |-> NULL, isPlaying |-> playing,
          currentTime |-> 0, mediaDuration |-> NaN,
          duration |-> IF url # NULL THEN duration ELSE 0]

\* The AudioPlayer effect keyed on audioUrl, run when the url has changed.
\* It returns the player's isLoading, error, currentTime and duration and
\* the page's isPlaying after it, with the position and duration the media
\* element has once its src has changed.
UrlEffect(url, changed, playing) ==
    IF ~changed
    THEN [isLoading |-> isLoading, error |-> error, isPlaying |-> playing,
          currentTime |-> currentTime, mediaDuration |-> mediaDuration,
          duration |-> duration]
    ELSE IF url # NULL
         THEN [isLoading |-> TRUE, error |-> NULL, isPlaying |-> playing,
               currentTime |-> 0, mediaDuration |-> NaN,
               duration |-> duration]
         ELSE [isLoading |-> FALSE, error |-> NULL, isPlaying |-> FALSE,
               currentTime |-> 0, mediaDuration |-> NaN,
               duration |-> 0]

----------------------------------------------------------------------------
(* The page (app/page.tsx).                                                *)

\* Calendar onSelect: a day that is not disabled and not the selected one.
SelectDate(day) ==
    LET date == day * DayTicks
    IN  /\ ~OutsideRange(date, getDateRange(selectedConfig(isAuthenticated), today))
        /\ day # DayOf(selectedDate)
        /\ SetSelection(date, selectedHour)
        /\ last' = NULL
        /\ UNCHANGED <<now, isAuthenticated, timestamp, selectedMinute,
                       selectedSecond, audioUrl, isPlaying, archiveSelected,
                       userDismissed, playerVars, ticks, includeTime, authLoading, serverVars, uncaught, authVars>>
        /\ Render

\* Select onValueChange: any of the 24 hours other than the selected one.
SelectHour(hour) ==
    /\ hour # selectedHour
    /\ SetSelection(selectedDate, hour)
    /\ last' = NULL
    /\ UNCHANGED <<now, isAuthenticated, timestamp, selectedMinute,
                   selectedSecond, audioUrl, isPlaying, archiveSelected,
                   userDismissed, playerVars, ticks, includeTime, authLoading, serverVars, uncaught, authVars>>
    /\ Render

\* "Listen Now": handlePlay, then the updateAudioUrl effect when
\* archiveSelected has changed.
handlePlay ==
    /\ ~isLoadingUrl
    /\ archiveSelected' = TRUE
    /\ isPlaying' = TRUE
    /\ inflight' = Launch(inflight, selectedDate, selectedHour, isAuthenticated,
                          timestamp, ~archiveSelected)
    /\ Cardinality(inflight') <= MaxInFlight
    /\ isLoadingUrl' = (~archiveSelected \/ isLoadingUrl)
    /\ last' = NULL
    /\ UNCHANGED <<now, isAuthenticated, timestamp, pendingNav, selectedDate,
                   selectedHour, selectedMinute, selectedSecond, audioUrl,
                   userDismissed, playerVars, ticks, includeTime, authLoading, serverVars, uncaught, authVars, navs>>
    /\ Render

\* The pushed URL becomes current: searchParams changes, the dismissal is
\* reset and updateAudioUrl runs again (timestamp is one of its keys).
RouterCommit ==
    /\ pendingNav # NULL
    /\ timestamp' = pendingNav
    /\ pendingNav' = NULL
    /\ userDismissed' = FALSE
    /\ inflight' = Launch(inflight, selectedDate, selectedHour, isAuthenticated,
                          pendingNav, archiveSelected)
    /\ Cardinality(inflight') <= MaxInFlight
    /\ isLoadingUrl' = (archiveSelected \/ isLoadingUrl)
    /\ last' = NULL
    /\ UNCHANGED <<now, isAuthenticated, selectedDate, selectedHour,
                   selectedMinute, selectedSecond, audioUrl, isPlaying,
                   archiveSelected, playerVars, ticks, includeTime, authLoading, serverVars, uncaught, authVars, navs>>
    /\ Render

\* What authClient.getSession() reports for a signed-in account: the
\* session, and the user of a DJ and of a member.
Session1 == <<"session-1">>

DJUser == [id |-> "user-1", role |-> <<"dj">>]

MemberUser == [id |-> "user-2", role |-> <<"member">>]

\* const userRole = user?.role ?? null
userRole == IF user = NULL THEN NULL ELSE user.role

\* An authentication change that leaves the dismissal as it is.
AuthChangeKeepsDismissal ==
    /\ isAuthenticated' = ~isAuthenticated
    /\ authLoading' = FALSE
    /\ session' = (IF isAuthenticated THEN NULL ELSE Session1)
    /\ user' = (IF isAuthenticated THEN NULL ELSE DJUser)
    /\ UNCHANGED userDismissed
    /\ inflight' = Launch(inflight, selectedDate, selectedHour, ~isAuthenticated,
                          timestamp, archiveSelected)
    /\ Cardinality(inflight') <= MaxInFlight
    /\ isLoadingUrl' = (archiveSelected \/ isLoadingUrl)
    /\ last' = <<"auth", userDismissed>>
    /\ UNCHANGED <<now, timestamp, pendingNav, selectedDate, selectedHour,
                   selectedMinute, selectedSecond, audioUrl, isPlaying,
                   archiveSelected, playerVars, ticks, includeTime, serverVars, uncaught, navs>>
    /\ Render

\* Login or logout (or the restored session arriving): isAuthenticated flips.
AuthChange ==
    /\ isAuthenticated' = ~isAuthenticated
    /\ authLoading' = FALSE
    /\ session' = (IF isAuthenticated THEN NULL ELSE Session1)
    /\ user' = (IF isAuthenticated THEN NULL ELSE DJUser)
    /\ userDismissed' = FALSE
    /\ inflight' = Launch(inflight, selectedDate, selectedHour, ~isAuthenticated,
                          timestamp, archiveSelected)
    /\ Cardinality(inflight') <= MaxInFlight
    /\ isLoadingUrl' = (archiveSelected \/ isLoadingUrl)
    /\ last' = <<"auth", userDismissed>>
    /\ UNCHANGED <<now, timestamp, pendingNav, selectedDate, selectedHour,
                   selectedMinute, selectedSecond, audioUrl, isPlaying,
                   archiveSelected, playerVars, ticks, includeTime, serverVars, uncaught, navs>>
    /\ Render

\* checkSession at mount, finding no session (or throwing) or the session
\* of a member; the session of a DJ is AuthChange.
checkSession(found) ==
    /\ authLoading
    /\ authLoading' = FALSE
    /\ session' = (IF found = NULL THEN session ELSE Session1)
    /\ user' = (IF found = NULL THEN user ELSE found)
    /\ last' = <<"checkSession">>
    /\ UNCHANGED <<now, isAuthenticated, timestamp, pendingNav, selectedDate,
                   selectedHour, selectedMinute, selectedSecond, audioUrl,
                   isPlaying, archiveSelected, isLoadingUrl, userDismissed,
                   inflight, playerVars, ticks, includeTime, serverVars,
                   uncaught, navs>>
    /\ Render

\* The ways login returns: signIn reports an error, getSession reports no
\* session, the account's role is below DJ, a call throws, or success.
LoginOutcomes == {"credentials", "nosession", "role", "thrown", "success"}

\* login that stores nothing when the role is below DJ.
loginStoresNothing(outcome) ==
    /\ ~authLoading /\ ~isAuthenticated
    /\ outcome \in LoginOutcomes
    /\ IF outcome = "success"
       THEN AuthChange
       ELSE /\ UNCHANGED <<session, user>>
            /\ last' = <<"login", outcome>>
            /\ UNCHANGED authLoading
            /\ UNCHANGED <<now, isAuthenticated, timestamp, pendingNav,
                           selectedDate, selectedHour, selectedMinute,
                           selectedSecond, audioUrl, isPlaying,
                           archiveSelected, isLoadingUrl, userDismissed,
                           inflight, playerVars, ticks, includeTime,
                           serverVars, uncaught, navs>>
            /\ Render

\* login from the sign-in dialog, shown once the session check is over to
\* a user who is not authenticated.  setSession and setUser run before the
\* role is checked.
login(outcome) ==
    /\ ~authLoading /\ ~isAuthenticated
    /\ outcome \in LoginOutcomes
    /\ IF outcome = "success"
       THEN AuthChange
       ELSE /\ session' = (IF outcome = "role" THEN Session1 ELSE session)
            /\ user' = (IF outcome = "role" THEN MemberUser ELSE user)
            /\ last' = <<"login", outcome>>
            /\ UNCHANGED authLoading
            /\ UNCHANGED <<now, isAuthenticated, timestamp, pendingNav,
                           selectedDate, selectedHour, selectedMinute,
                           selectedSecond, audioUrl, isPlaying,
                           archiveSelected, isLoadingUrl, userDismissed,
                           inflight, playerVars, ticks, includeTime,
                           serverVars, uncaught, navs>>
            /\ Render

\* The banner's dismiss button.
Dismiss ==
    /\ invalidLinkReason # NULL
    /\ userDismissed' = TRUE
    /\ last' = NULL
    /\ UNCHANGED <<now, isAuthenticated, timestamp, pendingNav, selectedDate,
                   selectedHour, selectedMinute, selectedSecond, audioUrl,
                   isPlaying, archiveSelected, isLoadingUrl, inflight,
                   playerVars, ticks, includeTime, authLoading, serverVars, uncaught, authVars, navs>>
    /\ Render

\* getArchiveUrl resolves: the endpoint admitted the key and signed a URL.
ResolveOk(call) ==
    /\ call \in inflight
    /\ ServerAdmits(call, now)
    /\ inflight' = inflight \ {call}
    /\ audioUrl' = call.key
    /\ isLoadingUrl' = FALSE
    /\ LET eff == UrlEffect(call.key, call.key # audioUrl,
                            IF call.auto THEN TRUE ELSE isPlaying)
       IN  /\ isPlaying' = eff.isPlaying
           /\ isLoading' = eff.isLoading
           /\ error' = eff.error
           /\ currentTime' = eff.currentTime
           /\ mediaDuration' = eff.mediaDuration
           /\ duration' = eff.duration
           /\ UNCHANGED isMuted
    /\ last' = NULL
    /\ UNCHANGED <<now, isAuthenticated, timestamp, pendingNav, selectedDate,
                   selectedHour, selectedMinute, selectedSecond,
                   archiveSelected, userDismissed, isTransitioning,
                   canplayListeners, keys, ticks, includeTime, authLoading, serverVars, uncaught, authVars, navs>>
    /\ Render

\* getArchiveUrl throws: the endpoint denied the key, or the request failed.
ResolveFail(call) ==
    /\ call \in inflight
    /\ inflight' = inflight \ {call}
    /\ audioUrl' = NULL
    /\ isLoadingUrl' = FALSE
    /\ LET eff == UrlEffect(NULL, audioUrl # NULL, isPlaying)
       IN  /\ isPlaying' = eff.isPlaying
           /\ isLoading' = eff.isLoading
           /\ error' = eff.error
           /\ currentTime' = eff.currentTime
           /\ mediaDuration' = eff.mediaDuration
           /\ duration' = eff.duration
           /\ UNCHANGED isMuted
    /\ last' = NULL
    /\ UNCHANGED <<now, isAuthenticated, timestamp, pendingNav, selectedDate,
                   selectedHour, selectedMinute, selectedSecond,
                   archiveSelected, userDismissed, isTransitioning,
                   canplayListeners, keys, ticks, includeTime, authLoading, serverVars, uncaught, authVars, navs>>
    /\ Render

----------------------------------------------------------------------------
(* The player (components/audio-player.tsx).                               *)

\* A render of the page when `changed` (page state was set to a new value).
RenderIf(changed) ==
    IF changed THEN Render ELSE UNCHANGED <<today, invalidLinkReason>>

\* selectedHour + hours on JavaScript numbers.
Plus(h, d) == IF h = NaN THEN NaN ELSE h + d

\* stepHour that wraps the hour and keeps the date.
stepHourSameDay(date, hour, hours) ==
    LET newHour == Plus(hour, hours)
    IN  IF newHour # NaN /\ newHour < 0 THEN [hour |-> 23, date |-> date]
        ELSE IF newHour # NaN /\ newHour > 23 THEN [hour |-> 0, date |-> date]
        ELSE [hour |-> newHour, date |-> date]

\* changeHour's arithmetic: the stepped hour and date, with day rollover.
stepHour(date, hour, hours) ==
    LET newHour == Plus(hour, hours)
    IN  IF newHour # NaN /\ newHour < 0
            THEN [hour |-> 23, date |-> AddDays(date, 0 - 1)]
        ELSE IF newHour # NaN /\ newHour > 23
            THEN [hour |-> 0, date |-> AddDays(date, 1)]
        ELSE [hour |-> newHour, date |-> date]

\* handleAudioEnded's arithmetic: the next hour.
nextHour(date, hour) ==
    LET newHour == Plus(hour, 1)
    IN  IF newHour # NaN /\ newHour > 23
            THEN [hour |-> 0, date |-> AddDays(date, 1)]
        ELSE [hour |-> newHour, date |-> date]

\* The range check changeHour and handleAudioEnded make, on a fresh clock
\* and the config prop; TRUE when the new date is refused.
playerRefuses(newDate) ==
    OutsideRange(newDate, getDateRange(selectedConfig(isAuthenticated), now))

\* handleHourChange's check, on the range of the page's last render.
pageRefuses(newDate) ==
    OutsideRange(newDate, getDateRange(selectedConfig(isAuthenticated), today))

\* onHourChange(newHour, newDate) = handleHourChange.
handleHourChange(newHour, newDate) ==
    IF pageRefuses(newDate)
    THEN UNCHANGED <<selectedDate, selectedHour, pendingNav, inflight,
                     isLoadingUrl, today, invalidLinkReason, navs>>
    ELSE /\ SetSelection(newDate, newHour)
         /\ Render

\* The previous-hour and next-hour buttons.
changeHour(hours) ==
    LET new == stepHour(selectedDate, selectedHour, hours)
    IN  /\ archiveSelected /\ ~isTransitioning
        /\ navs < MaxNav
        /\ last' = <<"changeHour", selectedDate, selectedHour, hours>>
        /\ UNCHANGED <<now, isAuthenticated, timestamp, selectedMinute,
                       selectedSecond, audioUrl, isPlaying, archiveSelected,
                       userDismissed, playerVars, ticks, includeTime, authLoading, serverVars, uncaught, authVars>>
        /\ IF playerRefuses(new.date)
           THEN UNCHANGED <<selectedDate, selectedHour, pendingNav, inflight,
                            isLoadingUrl, today, invalidLinkReason, navs>>
           ELSE handleHourChange(new.hour, new.date)

\* The media element's ended event: handleAudioEnded.
handleAudioEnded ==
    LET new == nextHour(selectedDate, selectedHour)
    IN  /\ audioUrl # NULL /\ ~isLoading /\ error = NULL
        /\ navs < MaxNav
        /\ last' = <<"ended", selectedDate, selectedHour, 1>>
        /\ UNCHANGED <<now, isAuthenticated, timestamp, selectedMinute,
                       selectedSecond, audioUrl, archiveSelected,
                       userDismissed, isLoading, error, canplayListeners,
                       currentTime, mediaDuration, duration, isMuted, keys, ticks, includeTime, authLoading, serverVars, uncaught, authVars>>
        /\ IF playerRefuses(new.date)
           THEN /\ isPlaying' = FALSE
                /\ isTransitioning' = FALSE
                /\ UNCHANGED <<selectedDate, selectedHour, pendingNav,
                               inflight, isLoadingUrl, navs>>
                /\ RenderIf(isPlaying)
           ELSE /\ isTransitioning' = TRUE
                /\ UNCHANGED isPlaying
                /\ handleHourChange(new.hour, new.date)

\* const initialTime = selectedMinute * 60 + selectedSecond
initialTime ==
    IF selectedMinute = NaN \/ selectedSecond = NaN THEN NaN
    ELSE selectedMinute * 60 + selectedSecond

\* The canplay handler that handleLoadedMetadata leaves when the element is
\* not ready: a closure over initialTime and isTransitioning as they are at
\* registration, here with the url it was registered for.
CanPlayListener ==
    [initialTime |-> initialTime, isTransitioning |-> isTransitioning,
     url |-> audioUrl]

\* loadedmetadata for the current url.  With readyState >= 2 the handler
\* seeks and, in a transition, plays at once; otherwise it adds a canplay
\* listener.
handleLoadedMetadata(ready) ==
    /\ audioUrl # NULL /\ isLoading
    /\ ready \/ Len(canplayListeners) < MaxListeners
    /\ isLoading' = FALSE
    /\ mediaDuration' = Duration
    /\ duration' = Duration
    /\ UNCHANGED isMuted
    /\ IF ready
       THEN /\ currentTime' = initialTime
            /\ isPlaying' = (isTransitioning \/ isPlaying)
            /\ isTransitioning' = FALSE
            /\ UNCHANGED canplayListeners
       ELSE /\ canplayListeners' = Append(canplayListeners, CanPlayListener)
            /\ UNCHANGED <<isPlaying, isTransitioning, currentTime>>
    /\ last' = NULL
    /\ UNCHANGED <<now, isAuthenticated, timestamp, pendingNav, selectedDate,
                   selectedHour, selectedMinute, selectedSecond, audioUrl,
                   archiveSelected, isLoadingUrl, userDismissed, inflight,
                   error, keys, ticks, includeTime, authLoading, serverVars, uncaught, authVars, navs>>
    /\ RenderIf(isPlaying' # isPlaying)

\* canplay: every listener left by handleLoadedMetadata runs, in order of
\* registration, with the values it captured, and removes itself.
handleCanPlay ==
    /\ audioUrl # NULL /\ canplayListeners # <<>>
    /\ canplayListeners' = <<>>
    /\ currentTime' = canplayListeners[Len(canplayListeners)].initialTime
    /\ LET plays == \E i \in DOMAIN canplayListeners :
                        canplayListeners[i].isTransitioning
       IN  /\ isPlaying' = (plays \/ isPlaying)
           /\ isTransitioning' = (isTransitioning /\ ~plays)
    /\ last' = NULL
    /\ UNCHANGED <<now, isAuthenticated, timestamp, pendingNav, selectedDate,
                   selectedHour, selectedMinute, selectedSecond, audioUrl,
                   archiveSelected, isLoadingUrl, userDismissed, inflight,
                   isLoading, error, mediaDuration, duration, isMuted, keys, ticks, includeTime, authLoading, serverVars, uncaught, authVars, navs>>
    /\ RenderIf(isPlaying' # isPlaying)

\* onError that does not clear the transition flag.
onErrorKeepsTransition ==
    /\ audioUrl # NULL
    /\ error' = <<"Error loading audio file. Please try another archive.">>
    /\ isLoading' = FALSE
    /\ isPlaying' = FALSE
    /\ UNCHANGED isTransitioning
    /\ last' = <<"error", isPlaying, isTransitioning>>
    /\ UNCHANGED <<now, isAuthenticated, timestamp, pendingNav, selectedDate,
                   selectedHour, selectedMinute, selectedSecond, audioUrl,
                   archiveSelected, isLoadingUrl, userDismissed, inflight,
                   canplayListeners, currentTime, mediaDuration, duration, isMuted, keys, ticks, includeTime, authLoading, serverVars, uncaught, authVars,
                   navs>>
    /\ RenderIf(isPlaying)

\* The media element's error event.
onError ==
    /\ audioUrl # NULL
    /\ error' = <<"Error loading audio file. Please try another archive.">>
    /\ isLoading' = FALSE
    /\ isPlaying' = FALSE
    /\ isTransitioning' = FALSE
    /\ last' = <<"error", isPlaying, isTransitioning>>
    /\ UNCHANGED <<now, isAuthenticated, timestamp, pendingNav, selectedDate,
                   selectedHour, selectedMinute, selectedSecond, audioUrl,
                   archiveSelected, isLoadingUrl, userDismissed, inflight,
                   canplayListeners, currentTime, mediaDuration, duration, isMuted, keys, ticks, includeTime, authLoading, serverVars, uncaught, authVars,
                   navs>>
    /\ RenderIf(isPlaying)

\* togglePlayPause that also clears the error message.
togglePlayPauseClearsError ==
    /\ isPlaying' = ~isPlaying
    /\ error' = NULL
    /\ last' = <<"toggle", IF isPlaying THEN "pause" ELSE "play">>
    /\ UNCHANGED <<now, isAuthenticated, timestamp, pendingNav, selectedDate,
                   selectedHour, selectedMinute, selectedSecond, audioUrl,
                   archiveSelected, isLoadingUrl, userDismissed, inflight,
                   isLoading, isTransitioning, canplayListeners, currentTime,
                   mediaDuration, duration, isMuted, keys, ticks, includeTime,
                   authLoading, serverVars, uncaught, authVars, navs>>
    /\ Render

\* togglePlayPause: pause() or play() on the media element, then
\* setIsPlaying(!isPlaying).  `last` records the command issued.
togglePlayPause ==
    /\ isPlaying' = ~isPlaying
    /\ last' = <<"toggle", IF isPlaying THEN "pause" ELSE "play">>
    /\ UNCHANGED <<now, isAuthenticated, timestamp, pendingNav, selectedDate,
                   selectedHour, selectedMinute, selectedSecond, audioUrl,
                   archiveSelected, isLoadingUrl, userDismissed, inflight,
                   playerVars, ticks, includeTime, authLoading, serverVars, uncaught, authVars, navs>>
    /\ Render

\* toggleMute: the element's muted flag and the isMuted state flip.
toggleMute ==
    /\ isMuted' = ~isMuted
    /\ last' = <<"mute">>
    /\ UNCHANGED <<now, today, isAuthenticated, timestamp, pendingNav,
                   selectedDate, selectedHour, selectedMinute, selectedSecond,
                   audioUrl, isPlaying, archiveSelected, isLoadingUrl,
                   invalidLinkReason, userDismissed, inflight, isLoading,
                   error, isTransitioning, canplayListeners, currentTime,
                   mediaDuration, duration, keys, ticks, includeTime,
                   authLoading, serverVars, uncaught, authVars, navs>>

\* The play/pause button: disabled without a url or while loading.
playButton ==
    /\ audioUrl # NULL /\ ~isLoading
    /\ togglePlayPause

\* The elements a keydown can target.
KeyTargets == {"body", "input", "textarea"}

KeyCodes == {"Space", "ArrowLeft", "ArrowRight"}

\* The text-field test that forgets HTMLTextAreaElement.
targetIsInputOnly(target) == target = "input"

\* e.target instanceof HTMLInputElement || instanceof HTMLTextAreaElement
targetIsTextField(target) == target \in {"input", "textarea"}

\* The Space guard that forgets isLoading.
spaceAllowedWhileLoading == audioUrl # NULL

\* case "Space": if (audioUrl && !isLoading)
spaceAllowed == audioUrl # NULL /\ ~isLoading

\* A keydown the handler lets pass without touching any state.
keyIgnored(code, target) ==
    /\ last' = <<"key", code, target>>
    /\ UNCHANGED <<now, today, isAuthenticated, timestamp, pendingNav,
                   selectedDate, selectedHour, selectedMinute, selectedSecond,
                   audioUrl, isPlaying, archiveSelected, isLoadingUrl,
                   invalidLinkReason, userDismissed, inflight, playerVars,
                   ticks, includeTime, authLoading, serverVars, uncaught, authVars, navs>>

\* A keydown whose handler throws before it has set any state: the
\* TypeError leaves the listener uncaught.
keyThrows(code, target) ==
    /\ last' = <<"key", code, target>>
    /\ uncaught' = uncaught \cup {"TypeError"}
    /\ UNCHANGED <<now, today, isAuthenticated, timestamp, pendingNav,
                   selectedDate, selectedHour, selectedMinute, selectedSecond,
                   audioUrl, isPlaying, archiveSelected, isLoadingUrl,
                   invalidLinkReason, userDismissed, inflight, playerVars,
                   ticks, includeTime, authLoading, serverVars, authVars, navs>>

\* audioRef.current.currentTime = newTime; setCurrentTime(newTime).
\* Assigning a non-finite time throws before any state is set.
keySeek(code, target, newTime) ==
    IF newTime = NaN THEN keyThrows(code, target)
    ELSE /\ keys < MaxKeys
         /\ keys' = keys + 1
         /\ currentTime' = newTime
         /\ last' = <<"key", code, target>>
         /\ UNCHANGED <<now, today, isAuthenticated, timestamp, pendingNav,
                        selectedDate, selectedHour, selectedMinute,
                        selectedSecond, audioUrl, isPlaying, archiveSelected,
                        isLoadingUrl, invalidLinkReason, userDismissed,
                        inflight, isLoading, error, isTransitioning,
                        canplayListeners, mediaDuration, duration, isMuted, ticks, includeTime, authLoading, serverVars, uncaught, authVars, navs>>

Max(a, b) == IF a >= b THEN a ELSE b

\* Math.min on JavaScript numbers: NaN if either is NaN.
Min(a, b) == IF a = NaN \/ b = NaN THEN NaN ELSE IF a <= b THEN a ELSE b

\* The window keydown listener.
handleKeyDown(code, target) ==
    IF targetIsTextField(target) THEN keyIgnored(code, target)
    ELSE IF code = "Space"
         THEN IF spaceAllowed THEN togglePlayPause
              ELSE keyIgnored(code, target)
    ELSE IF code = "ArrowLeft"
         THEN IF audioUrl # NULL
              THEN keySeek(code, target, Max(0, currentTime - 5))
              ELSE keyIgnored(code, target)
    ELSE IF audioUrl # NULL
         THEN keySeek(code, target, Min(mediaDuration, currentTime + 5))
         ELSE keyIgnored(code, target)

\* The play() promises of the last request reject.  The isPlaying effect,
\* handleLoadedMetadata and its canplay handler catch theirs and call
\* setIsPlaying(false); togglePlayPause attaches no handler to its own.
playRejected ==
    /\ audioUrl # NULL /\ isPlaying
    /\ isPlaying' = FALSE
    /\ uncaught' = IF last = <<"toggle", "play">>
                      THEN uncaught \cup {"play"} ELSE uncaught
    /\ last' = <<"rejected">>
    /\ UNCHANGED <<now, isAuthenticated, timestamp, pendingNav, selectedDate,
                   selectedHour, selectedMinute, selectedSecond, audioUrl,
                   archiveSelected, isLoadingUrl, userDismissed, inflight,
                   playerVars, ticks, includeTime, authLoading, serverVars, authVars,
                   navs>>
    /\ Render

\* The media element's own play and pause events (e.g. OS media keys).
onPlayPause(playing) ==
    /\ audioUrl # NULL
    /\ isPlaying # playing
    /\ isPlaying' = playing
    /\ last' = NULL
    /\ UNCHANGED <<now, isAuthenticated, timestamp, pendingNav, selectedDate,
                   selectedHour, selectedMinute, selectedSecond, audioUrl,
                   archiveSelected, isLoadingUrl, userDismissed, inflight,
                   playerVars, ticks, includeTime, authLoading, serverVars, uncaught, authVars, navs>>
    /\ Render

\* Time passes.
Tick ==
    /\ ticks < MaxTicks
    /\ now' = now + 1
    /\ ticks' = ticks + 1
    /\ UNCHANGED <<today, isAuthenticated, timestamp, pendingNav, selectedDate,
                   selectedHour, selectedMinute, selectedSecond, audioUrl,
                   isPlaying, archiveSelected, isLoadingUrl, invalidLinkReason,
                   userDismissed, inflight, playerVars, includeTime, authLoading, serverVars, uncaught, authVars, navs,
                   last>>

----------------------------------------------------------------------------
Next ==
    \/ \E day \in PickDays : SelectDate(day)
    \/ \E hour \in PickHours : SelectHour(hour)
    \/ handlePlay
    \/ RouterCommit
    \/ AuthChange
    \/ Dismiss
    \/ \E call \in inflight : ResolveOk(call)
    \/ \E call \in inflight : ResolveFail(call)
    \/ \E hours \in {0 - 1, 1} : changeHour(hours)
    \/ handleAudioEnded
    \/ \E ready \in BOOLEAN : handleLoadedMetadata(ready)
    \/ handleCanPlay
    \/ onError
    \/ playButton
    \/ \E playing \in BOOLEAN : onPlayPause(playing)
    \/ Tick

Spec == Init /\ [][Next]_vars

----------------------------------------------------------------------------
(* The controller and the navigator on their own: the page loaded from a   *)
(* wider range of links and clock readings, with the user stepping,        *)
(* picking, signing in and out and dismissing the banner while the         *)
(* resolver calls are still pending and the media element stays silent.    *)

\* Clock readings: midnight, half past midnight, half past ten, noon, and
\* half past eleven at night.
NavClocks ==
    {Today, Today + 1, Today + 10 * HourTicks + 1, Today + 12 * HourTicks,
     Today + 23 * HourTicks + 1}

\* Days back from today on either side of the two window boundaries.
NavDaysBack == {0 - 1, 0, 1, 13, 14, 15, 89, 90, 91}

NavLinks ==
    {NULL, Chars(<<2, 0, 2, 4>>), [i \in 1..14 |-> "x"],
     Chars(<<0, 1, 0, 0, 0, 1, 1, 5, 1, 4, 0, 0, 0, 0>>)} \cup
    { createTimestamp(AddDays(Today, 0 - d), h, 0, 0) :
          d \in NavDaysBack, h \in {0, 14, 23} }

NavInit == Load(NavClocks, NavLinks)

NavNext ==
    \/ \E hours \in {0 - 1, 1} : changeHour(hours)
    \/ \E day \in {DayOf(Today) - d : d \in NavDaysBack} : SelectDate(day)
    \/ \E hour \in {0, 23} : SelectHour(hour)
    \/ handlePlay
    \/ AuthChange
    \/ RouterCommit
    \/ Dismiss
    \/ Tick

SpecNav == NavInit /\ [][NavNext]_vars

\* The auth provider under the page: the session check at mount, sign-in
\* attempts of every outcome, sign-out, and the page following t.
AuthNext ==
    \/ \E found \in {NULL, MemberUser} : checkSession(found)
    \/ \E outcome \in LoginOutcomes : login(outcome)
    \/ AuthChange
    \/ RouterCommit
    \/ Dismiss

SpecAuth == NavInit /\ [][AuthNext]_vars

----------------------------------------------------------------------------
(* The playback session on its own: the page loaded at half past ten with  *)
(* no link or a link to an admissible hour, the resolver answering, the    *)
(* media element firing its events, the user toggling and stepping.        *)

PlayClocks == {Today + 10 * HourTicks + 1}

PlayLinks ==
    { NULL, Chars(<<2, 0, 2, 4, 0, 1, 2, 0, 1, 0, 3, 0, 4, 5>>),
      Chars(<<2, 0, 2, 4, 0, 1, 1, 9, 2, 3, 0, 0, 0, 0>>) }

PlayInit == Load(PlayClocks, PlayLinks)

PlayNext ==
    \/ handlePlay
    \/ \E call \in inflight : ResolveOk(call)
    \/ \E call \in inflight : ResolveFail(call)
    \/ \E hours \in {0 - 1, 1} : changeHour(hours)
    \/ handleAudioEnded
    \/ \E ready \in BOOLEAN : handleLoadedMetadata(ready)
    \/ handleCanPlay
    \/ onError
    \/ playButton
    \/ \E playing \in BOOLEAN : onPlayPause(playing)
    \/ AuthChange
    \/ RouterCommit

SpecPlay == PlayInit /\ [][PlayNext]_vars

----------------------------------------------------------------------------
(* The end-of-recording hand-off with every resolver call that the         *)
(* endpoint admits answered, metadata and canplay delivered, and no pause  *)
(* by the user.                                                            *)

\* Links to the last hour of yesterday, to an hour of this morning and to
\* the current hour.
AdvanceLinks ==
    { NULL, Chars(<<2, 0, 2, 4, 0, 1, 1, 9, 2, 3, 0, 0, 0, 0>>),
      Chars(<<2, 0, 2, 4, 0, 1, 2, 0, 0, 8, 3, 0, 4, 5>>),
      Chars(<<2, 0, 2, 4, 0, 1, 2, 0, 1, 0, 3, 0, 4, 5>>) }

AdvanceInit == Load(PlayClocks, AdvanceLinks)

AdvanceNext ==
    \/ handlePlay
    \/ RouterCommit
    \/ \E call \in inflight : ResolveOk(call)
    \/ handleAudioEnded
    \/ \E ready \in BOOLEAN : handleLoadedMetadata(ready)
    \/ handleCanPlay

\* The resolver's fetch, the router and the media element make progress.
AdvanceFairness ==
    /\ WF_vars(\E call \in inflight : ResolveOk(call))
    /\ WF_vars(RouterCommit)
    /\ WF_vars(\E ready \in BOOLEAN : handleLoadedMetadata(ready))
    /\ WF_vars(handleCanPlay)

SpecAdvance == AdvanceInit /\ [][AdvanceNext]_vars /\ AdvanceFairness

-----------------------------------------------------------------------------
(* The hand-off with resolver calls that may also fail: every call in      *)
(* flight is eventually answered, one way or the other.                    *)

SettleNext ==
    \/ AdvanceNext
    \/ \E call \in inflight : ResolveFail(call)

SettleFairness ==
    /\ WF_vars(\E call \in inflight : ResolveOk(call) \/ ResolveFail(call))
    /\ WF_vars(RouterCommit)
    /\ WF_vars(\E ready \in BOOLEAN : handleLoadedMetadata(ready))
    /\ WF_vars(handleCanPlay)

SpecSettle == AdvanceInit /\ [][SettleNext]_vars /\ SettleFairness

----------------------------------------------------------------------------
(* The page's selection handlers with the resolver's responses: picks made *)
(* while earlier resolver calls are still in flight.                       *)

\* Links to the oldest day of the default window and to the current hour.
SelectLinks ==
    { NULL, Chars(<<2, 0, 2, 4, 0, 1, 0, 7, 0, 0, 0, 0, 0, 0>>),
      Chars(<<2, 0, 2, 4, 0, 1, 2, 0, 1, 0, 3, 0, 4, 5>>),
      Chars(<<2, 0, 2, 4, 0, 1, 1, 9, 2, 5, 6, 1, 9, 9>>) }

SelectInit == Load(PlayClocks, SelectLinks)

SelectNext ==
    \/ \E day \in PickDays : SelectDate(day)
    \/ \E hour \in PickHours : SelectHour(hour)
    \/ handlePlay
    \/ RouterCommit
    \/ \E call \in inflight : ResolveOk(call)
    \/ \E call \in inflight : ResolveFail(call)

SpecSelect == SelectInit /\ [][SelectNext]_vars

----------------------------------------------------------------------------
(* The keyboard: the playback session with keydown events on the window.   *)

KeysNext ==
    \/ handlePlay
    \/ \E call \in inflight : ResolveOk(call)
    \/ \E call \in inflight : ResolveFail(call)
    \/ \E ready \in BOOLEAN : handleLoadedMetadata(ready)
    \/ handleCanPlay
    \/ onError
    \/ playButton
    \/ \E code \in KeyCodes, target \in KeyTargets : handleKeyDown(code, target)
    \/ toggleMute
    \/ \E playing \in BOOLEAN : onPlayPause(playing)

SpecKeys == PlayInit /\ [][KeysNext]_vars

-----------------------------------------------------------------------------
(* Loading and playing with play requests that the media element rejects. *)

RejectNext ==
    \/ handlePlay
    \/ \E call \in inflight : ResolveOk(call)
    \/ \E call \in inflight : ResolveFail(call)
    \/ handleAudioEnded
    \/ \E ready \in BOOLEAN : handleLoadedMetadata(ready)
    \/ handleCanPlay
    \/ onError
    \/ playButton
    \/ playRejected

SpecReject == PlayInit /\ [][RejectNext]_vars

----------------------------------------------------------------------------
(* The timestamp codec on its own: createTimestamp applied to a date,      *)
(* hour, minute and second, and parseTimestamp applied to its result.      *)

\* Dates with a 4-digit year, some with a time of day: the first and last
\* such days, a leap day, the turn of a century, one- and two-digit months
\* and days.
CodecDates ==
    { MakeDate(1000, 0, 1, 0), MakeDate(1999, 11, 31, 0),
      MakeDate(2000, 0, 1, 0), MakeDate(2023, 8, 9, 0),
      MakeDate(2024, 1, 29, 13), MakeDate(2024, 9, 10, 0),
      MakeDate(9999, 11, 31, 23) }

CodecHours == {0, 9, 10, 23}

CodecMinutes == {0, 5, 59}

CodecSeconds == {0, 7, 59}

CodecInit ==
    /\ now = Today
    /\ today = Today
    /\ isAuthenticated = FALSE
    /\ timestamp = NULL
    /\ pendingNav = NULL
    /\ selectedDate \in CodecDates
    /\ selectedHour \in CodecHours
    /\ selectedMinute \in CodecMinutes
    /\ selectedSecond \in CodecSeconds
    /\ audioUrl = NULL
    /\ isPlaying = FALSE
    /\ archiveSelected = FALSE
    /\ isLoadingUrl = FALSE
    /\ invalidLinkReason = NULL
    /\ userDismissed = FALSE
    /\ inflight = {}
    /\ isLoading = FALSE
    /\ error = NULL
    /\ isTransitioning = FALSE
    /\ canplayListeners = <<>>
    /\ currentTime = 0
    /\ mediaDuration = NaN
    /\ duration = 0
    /\ isMuted = FALSE
    /\ keys = 0
    /\ includeTime = FALSE
    /\ authLoading = FALSE
    /\ uncaught = {}
    /\ session = NULL
    /\ user = NULL
    /\ s3Client = TRUE
    /\ request = NULL
    /\ response = NULL
    /\ ticks = 0
    /\ navs = 0
    /\ last = <<"codec">>

\* timestamp = createTimestamp(date, hour, minute, second)
Encode ==
    /\ timestamp = NULL
    /\ timestamp' = createTimestamp(selectedDate, selectedHour, selectedMinute,
                                    selectedSecond)
    /\ UNCHANGED <<now, today, isAuthenticated, pendingNav, selectedDate,
                   selectedHour, selectedMinute, selectedSecond, audioUrl,
                   isPlaying, archiveSelected, isLoadingUrl, invalidLinkReason,
                   userDismissed, inflight, playerVars, ticks, includeTime, authLoading, serverVars, uncaught, authVars, navs, last>>

\* parseTimestamp(timestamp)
Decode ==
    /\ timestamp # NULL
    /\ last = <<"codec">>
    /\ last' = <<"parsed", parseTimestamp(timestamp)>>
    /\ UNCHANGED <<now, today, isAuthenticated, timestamp, pendingNav,
                   selectedDate, selectedHour, selectedMinute, selectedSecond,
                   audioUrl, isPlaying, archiveSelected, isLoadingUrl,
                   invalidLinkReason, userDismissed, inflight, playerVars,
                   ticks, includeTime, authLoading, serverVars, uncaught, authVars, navs>>

CodecNext == Encode \/ Decode

SpecCodec == CodecInit /\ [][CodecNext]_vars

----------------------------------------------------------------------------
(* The share dialog (components/share-dialog.tsx), mounted in the player   *)
(* with the selection and the playback position as props.                  *)

\* window.location.origin + window.location.pathname, as two opaque pieces.
baseUrl == <<"origin", "pathname">>

\* The share timestamp that always carries the position.
shareTimestampAlwaysPosition(date, hour, position, include) ==
    createTimestamp(date, hour, position \div 60, position % 60)

\* createTimestamp(selectedDate, selectedHour,
\*     includeTime ? Math.floor(currentTime / 60) : 0,
\*     includeTime ? Math.floor(currentTime % 60) : 0)
shareTimestamp(date, hour, position, include) ==
    createTimestamp(date, hour,
                    IF include THEN position \div 60 ELSE 0,
                    IF include THEN position % 60 ELSE 0)

\* The state the effect keeps: `${baseUrl}?t=${timestamp}`.
shareUrl ==
    baseUrl \o <<"?", "t", "=">>
        \o shareTimestamp(selectedDate, selectedHour, currentTime, includeTime)

\* The checkbox "Include current playback position".
setIncludeTime(checked) ==
    /\ checked # includeTime
    /\ includeTime' = checked
    /\ UNCHANGED <<authLoading, serverVars, uncaught, authVars>>
    /\ last' = <<"setIncludeTime", checked>>
    /\ UNCHANGED <<now, today, isAuthenticated, timestamp, pendingNav,
                   selectedDate, selectedHour, selectedMinute, selectedSecond,
                   audioUrl, isPlaying, archiveSelected, isLoadingUrl,
                   invalidLinkReason, userDismissed, inflight, isLoading,
                   error, isTransitioning, canplayListeners, currentTime,
                   mediaDuration, duration, isMuted, keys, ticks, navs>>

\* The media element's timeupdate: setCurrentTime(audio.currentTime).
audioTimeUpdate(position) ==
    /\ position # currentTime
    /\ currentTime' = position
    /\ last' = NULL
    /\ UNCHANGED <<now, today, isAuthenticated, timestamp, pendingNav,
                   selectedDate, selectedHour, selectedMinute, selectedSecond,
                   audioUrl, isPlaying, archiveSelected, isLoadingUrl,
                   invalidLinkReason, userDismissed, inflight, isLoading,
                   error, isTransitioning, canplayListeners, mediaDuration, duration, isMuted,
                   keys, includeTime, authLoading, serverVars, uncaught, authVars, ticks, navs>>

\* Selections and playback positions (whole seconds within the hour) the
\* dialog is rendered with.
ShareDates ==
    {MakeDate(2024, 0, 15, 0), MakeDate(2024, 0, 9, 0), MakeDate(2024, 0, 19, 12)}

ShareHours == {0, 9, 14, 23}

SharePositions == {0, 59, 60, 125, 1845, 3599}

ShareInit ==
    /\ now = Today
    /\ today = Today
    /\ isAuthenticated = FALSE
    /\ timestamp = NULL
    /\ pendingNav = NULL
    /\ selectedDate \in ShareDates
    /\ selectedHour \in ShareHours
    /\ selectedMinute = 0
    /\ selectedSecond = 0
    /\ audioUrl = ArchiveKey(selectedDate, selectedHour)
    /\ isPlaying = TRUE
    /\ archiveSelected = TRUE
    /\ isLoadingUrl = FALSE
    /\ invalidLinkReason = NULL
    /\ userDismissed = FALSE
    /\ inflight = {}
    /\ isLoading = FALSE
    /\ error = NULL
    /\ isTransitioning = FALSE
    /\ canplayListeners = <<>>
    /\ currentTime \in SharePositions
    /\ mediaDuration = Duration
    /\ duration = Duration
    /\ isMuted = FALSE
    /\ keys = 0
    /\ includeTime = FALSE
    /\ authLoading = FALSE
    /\ uncaught = {}
    /\ session = NULL
    /\ user = NULL
    /\ s3Client = TRUE
    /\ request = NULL
    /\ response = NULL
    /\ ticks = 0
    /\ navs = 0
    /\ last = NULL

ShareNext ==
    \/ \E checked \in BOOLEAN : setIncludeTime(checked)
    \/ \E position \in SharePositions : audioTimeUpdate(position)

SpecShare == ShareInit /\ [][ShareNext]_vars

----------------------------------------------------------------------------
(* The signed-url endpoint (app/api/signed-url/route.ts, POST) serving     *)
(* requests of any client.                                                 *)

\* The state of the page and the player, which the endpoint leaves alone.
clientVars ==
    <<today, isAuthenticated, timestamp, pendingNav, selectedDate,
      selectedHour, selectedMinute, selectedSecond, audioUrl, isPlaying,
      archiveSelected, isLoadingUrl, invalidLinkReason, userDismissed,
      inflight, playerVars, includeTime, authLoading, uncaught, authVars,
      ticks, navs>>

\* A request arrives: const { key } = await request.json().
receive(req) ==
    /\ request = NULL
    /\ request' = req
    /\ last' = <<"receive">>
    /\ UNCHANGED <<now, s3Client, response, clientVars>>

\* The handler runs to its response.
respond(signs) ==
    /\ request # NULL
    /\ response = NULL
    /\ response' = POST(request, now, s3Client, signs)
    /\ last' = <<"respond">>
    /\ UNCHANGED <<now, s3Client, request, clientVars>>

\* Clock readings of the server: midnight, and half past ten.
EndpointClocks == {Today, Today + 10 * HourTicks + 1}

\* Days back from today on either side of the two window boundaries, and
\* hours on either side of the clock readings.
EndpointDaysBack == {0 - 1, 0, 13, 14, 15, 89, 90, 91}

EndpointHours == {0, 10, 11, 23}

\* Keys as getArchiveUrl builds them, a key inside a longer string, a key of
\* another form, and the empty key.
EndpointKeys ==
    {ArchiveKey(AddDays(Today, 0 - d), h) :
        d \in EndpointDaysBack, h \in EndpointHours}
    \cup {<<"x", "/">> \o ArchiveKey(AddDays(Today, 0 - 30), 10),
          <<"l", "i", "v", "e", ".", "m", "p", "3">>, <<>>}

EndpointRoles ==
    {NULL, <<"member">>, <<"dj">>, <<"musicDirector">>, <<"stationManager">>,
     <<"admin">>}

EndpointTokens ==
    [verify : {"valid"}, role : EndpointRoles]
    \cup [verify : {"expired", "claim", "signature", "other"}, role : {<<"dj">>}]

\* The Authorization header: absent, of another scheme, "Bearer " alone, or
\* "Bearer " with a token.
EndpointAuthHeaders ==
    {NULL, <<"Basic", [verify |-> "valid", role |-> <<"dj">>]>>,
     <<"Bearer", NULL>>}
    \cup {<<"Bearer", t>> : t \in EndpointTokens}

EndpointRequests ==
    LET headersOf(a) ==
            {<<"Content-Type", <<"application/json">>>>}
                \cup (IF a = NULL THEN {} ELSE {<<"Authorization", a>>})
    IN  {[headers |-> headersOf(a), body |-> [key |-> k]] :
            a \in EndpointAuthHeaders, k \in EndpointKeys}
        \cup {[headers |-> headersOf(a), body |-> [isAuthenticated |-> TRUE]] :
                a \in {NULL}}

EndpointInit ==
    /\ now \in EndpointClocks
    /\ today = now
    /\ isAuthenticated = FALSE
    /\ timestamp = NULL
    /\ pendingNav = NULL
    /\ selectedDate = yesterdayOf(now)
    /\ selectedHour = 12
    /\ selectedMinute = 0
    /\ selectedSecond = 0
    /\ audioUrl = NULL
    /\ isPlaying = FALSE
    /\ archiveSelected = FALSE
    /\ isLoadingUrl = FALSE
    /\ invalidLinkReason = NULL
    /\ userDismissed = FALSE
    /\ inflight = {}
    /\ isLoading = FALSE
    /\ error = NULL
    /\ isTransitioning = FALSE
    /\ canplayListeners = <<>>
    /\ currentTime = 0
    /\ mediaDuration = NaN
    /\ duration = 0
    /\ isMuted = FALSE
    /\ keys = 0
    /\ includeTime = FALSE
    /\ authLoading = FALSE
    /\ uncaught = {}
    /\ session = NULL
    /\ user = NULL
    /\ s3Client \in BOOLEAN
    /\ request = NULL
    /\ response = NULL
    /\ ticks = 0
    /\ navs = 0
    /\ last = NULL

EndpointNext ==
    \/ \E req \in EndpointRequests : receive(req)
    \/ \E signs \in BOOLEAN : respond(signs)

SpecEndpoint == EndpointInit /\ [][EndpointNext]_vars

----------------------------------------------------------------------------
(* Vocabulary of the properties.                                           *)

\* The instant a selection stands for: its calendar day at its hour.
InstantOf(date, hour) == DayOf(date) * DayTicks + hour * HourTicks

\* isWithinWindow: earliestInstant <= target <= latestInstant for the window
\* of `days` days ending at `clock`.
WithinWindow(target, days, clock) ==
    clock - days * DayTicks <= target /\ target <= clock

\* The window length of the caller's current tier.
currentDays == selectedConfig(isAuthenticated)

\* The link the page was loaded with (or the current URL) decodes to a date.
linkDate == initialStateOf(timestamp).date

linkDecodes == initialStateOf(timestamp) # NULL

atLoad == last = <<"load">>

----------------------------------------------------------------------------
(* C1.  When the selection changes from hour A to hour B while the call    *)
(* for A is in flight, A's URL never ends up as audioUrl: once every call  *)
(* has settled, a non-null audioUrl is the URL of the current selection.   *)
C1_LatestSelectionWins ==
    (inflight = {} /\ audioUrl # NULL)
        => audioUrl = ArchiveKey(selectedDate, selectedHour)

(* C2.  Whenever audioUrl is non-null, the instant of the current          *)
(* selection lies in [now - windowDays, now] of the caller's current tier. *)
C2_UrlImpliesSelectionInWindow ==
    audioUrl # NULL
        => /\ selectedHour # NaN
           /\ WithinWindow(InstantOf(selectedDate, selectedHour), currentDays, now)

(* C3.  A page loaded with a well-formed link classified requiresElevation *)
(* or outOfRange does not invoke the resolver for it and does not start    *)
(* playing: only the banner is shown.                                      *)
C3_RefusedLinkNotResolved ==
    (atLoad /\ linkDecodes /\ invalidLinkReason # NULL)
        => (inflight = {} /\ ~isPlaying)

(* C4.  When ended fires while the next hour's instant is later than now,  *)
(* the engine sets isPlaying false, leaves isTransitioning false and does  *)
(* not change the selection.                                               *)
C4_EndedAtEdgeStops ==
    [][ ( /\ handleAudioEnded
          /\ selectedHour # NaN
          /\ LET new == nextHour(selectedDate, selectedHour)
             IN  InstantOf(new.date, new.hour) > now )
        => ( /\ ~isPlaying'
             /\ ~isTransitioning'
             /\ pageSel' = pageSel ) ]_vars

(* C5.  A navigator step whose stepped (newDate, newHour) instant lies     *)
(* outside the access window leaves the selection unchanged; in particular *)
(* a +1 step never selects an hour later than now.                         *)
C5_StepOutsideWindowIsNoOp ==
    [][ \A hours \in {0 - 1, 1} :
          ( /\ changeHour(hours)
            /\ selectedHour # NaN
            /\ LET new == stepHour(selectedDate, selectedHour, hours)
               IN  ~WithinWindow(InstantOf(new.date, new.hour), currentDays, now) )
          => pageSel' = pageSel ]_vars

C7_NoStepBeforeWindowStart ==
    [][ \A hours \in {0 - 1, 1} :
          changeHour(hours)
          => LET first == DayOf(now) - currentDays
             IN  /\ (hours = 0 - 1 /\ selectedHour = 0
                        /\ DayOf(selectedDate) = first)
                        => pageSel' = pageSel
                 /\ DayOf(selectedDate) >= first
                        => DayOf(selectedDate') >= first ]_vars

\* A -1 step was taken from hour 0 of the first day of the window, from an
\* admissible selection, and the selection is what it was.
C7_Witness ==
    /\ Len(last) = 4 /\ last[1] = "changeHour"
    /\ last[3] = 0 /\ last[4] = 0 - 1
    /\ DayOf(last[2]) = DayOf(now) - currentDays
    /\ WithinWindow(InstantOf(last[2], last[3]), currentDays, now)
    /\ pageSel = <<last[2], last[3]>>

(* C8.  Window membership at day granularity: with now on calendar day T   *)
(* and a window of N days, a link dated day T - N is classified inside the *)
(* window and a link dated day T - N - 1 outside, whatever the time of day *)
(* of now.                                                                 *)
C8_BoundaryDayInside ==
    (atLoad /\ linkDecodes)
        => /\ DayOf(linkDate) = DayOf(now) - defaultConfig
                => invalidLinkReason = NULL
           /\ DayOf(linkDate) = DayOf(now) - defaultConfig - 1
                => invalidLinkReason # NULL

(* C9.  A page loaded with an absent or malformed t parameter has the      *)
(* selection yesterday at 12:00:00, archiveSelected false, no resolver     *)
(* call and isPlaying false: a malformed link behaves as no link.          *)
C9_MalformedLinkIsNoLink ==
    (atLoad /\ ~linkDecodes)
        => /\ pageSel = <<yesterdayOf(now), 12>>
           /\ selectedMinute = 0 /\ selectedSecond = 0
           /\ ~archiveSelected
           /\ inflight = {}
           /\ ~isPlaying

(* C10.  The banner of a decodable link that has not been dismissed is the *)
(* three-way classification of its date: none iff the date is inside the   *)
(* current tier's window; otherwise "login" iff it is inside the elevated  *)
(* window and the caller is not authenticated; otherwise "out_of_range".   *)
(* An authenticated caller never sees the "login" banner.                  *)
C10_ThreeWayClassification ==
    /\ (linkDecodes /\ ~userDismissed)
          => LET inCurrent == WithinWindow(linkDate, currentDays, today)
                 inElevated == WithinWindow(linkDate, djConfig, today)
             IN  invalidLinkReason =
                     IF inCurrent THEN NULL
                     ELSE IF inElevated /\ ~isAuthenticated THEN <<"login">>
                     ELSE <<"out_of_range">>
    /\ isAuthenticated => invalidLinkReason # <<"login">>

\* An authenticated caller on a link outside the default window and inside
\* the elevated one: no banner.
C10_Witness ==
    /\ isAuthenticated /\ linkDecodes /\ ~userDismissed
    /\ ~WithinWindow(linkDate, defaultConfig, today)
    /\ WithinWindow(linkDate, djConfig, today)
    /\ invalidLinkReason = NULL

(* C11.  When the resolver call for the current selection is denied or     *)
(* fails, the session is Errored: error is non-null and isLoading and      *)
(* isPlaying are false.                                                    *)
C11_ResolverFailureErrors ==
    [][ \A call \in inflight :
          (ResolveFail(call) /\ call.key = ArchiveKey(selectedDate, selectedHour))
          => (error' # NULL /\ ~isLoading' /\ ~isPlaying') ]_vars

(* C12.  A media error event sets a non-null error message and leaves      *)
(* isLoading, isPlaying and isTransitioning all false, whatever they were. *)
C12_MediaErrorClearsFlags ==
    [][ onError
        => (error' # NULL /\ ~isLoading' /\ ~isPlaying' /\ ~isTransitioning')
      ]_vars

\* The error event has fired on a session that was playing in a transition.
C12_Witness ==
    /\ last = <<"error", TRUE, TRUE>>
    /\ error # NULL /\ ~isLoading /\ ~isPlaying /\ ~isTransitioning

(* C13.  A login or logout while an admitted session is playing does not   *)
(* stop or reload it: the authentication change leaves audioUrl and        *)
(* isPlaying as they were and starts no resolver call.                     *)
C13_AuthChangeKeepsSession ==
    [][ (AuthChange /\ audioUrl # NULL /\ isPlaying)
        => ( /\ audioUrl' = audioUrl
             /\ isPlaying' = isPlaying
             /\ inflight' = inflight ) ]_vars

(* C14.  At rest (no navigation pending) the t parameter decodes to the    *)
(* date and hour of the current selection, whatever path changed the       *)
(* selection.                                                              *)
C14_UrlTracksSelection ==
    pendingNav = NULL
        => /\ linkDecodes
           /\ DayOf(linkDate) = DayOf(selectedDate)
           /\ initialStateOf(timestamp).hour = selectedHour

(* C15.  A play/pause toggle (button or Space key) with a url present and  *)
(* loading finished inverts isPlaying and issues the matching command:     *)
(* pause when it was playing, play when it was not.  With no url, or while *)
(* loading, the toggle leaves isPlaying unchanged.                         *)
C15_ToggleInvertsOrNoOp ==
    [][ /\ ( /\ playButton \/ handleKeyDown("Space", "body")
             /\ audioUrl # NULL /\ ~isLoading )
           => ( /\ isPlaying' = ~isPlaying
                /\ last' = <<"toggle", IF isPlaying THEN "pause" ELSE "play">> )
        /\ ( /\ playButton \/ handleKeyDown("Space", "body")
             /\ audioUrl = NULL \/ isLoading )
           => isPlaying' = isPlaying ]_vars

\* A toggle has started playback of a loaded url.
C15_Witness ==
    /\ last = <<"toggle", "play">>
    /\ audioUrl # NULL /\ ~isLoading /\ isPlaying

(* C16.  A Space, ArrowLeft or ArrowRight keydown whose target is a text   *)
(* input or textarea changes no playback state, and with audioUrl null no  *)
(* key changes isPlaying or the playback position.                         *)
C16_KeysSuppressed ==
    [][ \A code \in KeyCodes, target \in KeyTargets :
          handleKeyDown(code, target)
          => /\ target \in {"input", "textarea"}
                  => UNCHANGED <<audioUrl, isPlaying, playerVars>>
             /\ audioUrl = NULL
                  => UNCHANGED <<isPlaying, currentTime>> ]_vars

\* Space was pressed inside a textarea while a loaded url was playing, and
\* playback went on.
C16_Witness ==
    /\ last = <<"key", "Space", "textarea">>
    /\ audioUrl # NULL /\ ~isLoading /\ isPlaying

(* C17.  For a date with a 4-digit year, an hour in 0..23 and a minute and *)
(* second in 0..59, createTimestamp gives exactly 14 digits, and           *)
(* parseTimestamp of them gives the same calendar date, hour, minute and   *)
(* second.                                                                 *)
C17_CodecRoundTrip ==
    /\ timestamp # NULL
          => /\ Len(timestamp) = 14
             /\ \A i \in 1..Len(timestamp) : IsDigit(timestamp[i])
    /\ last[1] = "parsed"
          => /\ last[2] # NULL
             /\ DayOf(last[2].date) = DayOf(selectedDate)
             /\ last[2].hour = selectedHour
             /\ last[2].minute = selectedMinute
             /\ last[2].second = selectedSecond

\* Sep 9 2023 at 09:05:07, every field of one digit, has been encoded and
\* decoded.
C17_Witness ==
    /\ last[1] = "parsed"
    /\ selectedDate = MakeDate(2023, 8, 9, 0)
    /\ selectedHour = 9 /\ selectedMinute = 5 /\ selectedSecond = 7
    /\ timestamp = Chars(<<2, 0, 2, 3, 0, 9, 0, 9, 0, 9, 0, 5, 0, 7>>)

(* C18.  The share link is origin + path + ?t=<timestamp>; the timestamp   *)
(* decodes to the selected date and hour, with minute and second 0 when    *)
(* 'include current playback position' is off and floor(position / 60)     *)
(* and position mod 60 when it is on, also after the option is switched    *)
(* off again.  Jan 15 2024, hour 14, position 30:45 gives 20240115140000   *)
(* and 20240115143045.                                                     *)
C18_ShareLink ==
    LET t == SubSeq(shareUrl, 6, Len(shareUrl))
        p == parseTimestamp(t)
    IN  /\ SubSeq(shareUrl, 1, 5) = <<"origin", "pathname", "?", "t", "=">>
        /\ p # NULL
        /\ DayOf(p.date) = DayOf(selectedDate)
        /\ p.hour = selectedHour
        /\ p.minute = IF includeTime THEN currentTime \div 60 ELSE 0
        /\ p.second = IF includeTime THEN currentTime % 60 ELSE 0
        /\ ( /\ selectedDate = MakeDate(2024, 0, 15, 0)
             /\ selectedHour = 14
             /\ currentTime = 1845 )
           => t = IF includeTime
                     THEN Chars(<<2, 0, 2, 4, 0, 1, 1, 5, 1, 4, 3, 0, 4, 5>>)
                     ELSE Chars(<<2, 0, 2, 4, 0, 1, 1, 5, 1, 4, 0, 0, 0, 0>>)

\* The option was switched on and off again at position 30:45 of Jan 15
\* 2024 hour 14, and the link is back to the zeroed form.
C18_Witness ==
    /\ last = <<"setIncludeTime", FALSE>>
    /\ selectedDate = MakeDate(2024, 0, 15, 0)
    /\ selectedHour = 14 /\ currentTime = 1845
    /\ shareUrl = <<"origin", "pathname", "?", "t", "=">>
                    \o Chars(<<2, 0, 2, 4, 0, 1, 1, 5, 1, 4, 0, 0, 0, 0>>)

(* C19.  A request of getArchiveUrl made for a signed-in caller carries a   *)
(* header Authorization: Bearer <token> and a body with the key alone; a   *)
(* request made without a token carries no Authorization header and a      *)
(* body with the key alone.                                                *)
C19_BearerHeaderAndKeyOnlyBody ==
    \A call \in inflight :
        LET req == getArchiveRequest(call.key, call.auth)
            authHeaders == {h \in req.headers : h[1] = "Authorization"}
        IN  /\ DOMAIN req.body = {"key"}
            /\ req.body.key = call.key
            /\ call.auth => \E h \in authHeaders : h[2][1] = "Bearer"
            /\ ~call.auth => authHeaders = {}

(* C20.  For every resolver call with hour in 0..23 the key has the form   *)
(* YYYY/MM/DD/YYYYMMDDHH00.mp3, built from the local calendar fields of    *)
(* the date, and the endpoint's pattern matches it and recovers the same   *)
(* year, month, day and hour.                                              *)
C20_KeyRoundTrip ==
    \A call \in inflight :
        call.hour \in 0..(HoursPerDay - 1) =>
            LET match == dateMatch(call.key)
            IN  /\ Len(call.key) = Len(KeyPattern)
                /\ MatchesAt(call.key, 0)
                /\ match # NULL
                /\ ParseInt(match.year) = GetFullYear(call.date)
                /\ ParseInt(match.month) = GetMonth(call.date) + 1
                /\ ParseInt(match.day) = GetDate(call.date)
                /\ ParseInt(match.hour) = call.hour

----------------------------------------------------------------------------
(* Vocabulary of the endpoint's properties.                                *)

\* The endpoint has answered a request whose key carries a date and hour.
answeredKey ==
    /\ request # NULL /\ response # NULL
    /\ "key" \in DOMAIN request.body
    /\ dateMatch(request.body.key) # NULL

\* The instant the key of the request names: its calendar fields read as
\* decimal numbers, the month counted from 1.
requestInstant ==
    LET f == dateMatch(request.body.key)
    IN  MakeDate(ParseInt(f.year), ParseInt(f.month) - 1, ParseInt(f.day),
                 ParseInt(f.hour))

\* The request carries "Bearer <token>" with a token that verifies and whose
\* role is one of dj, musicDirector, stationManager, admin.
verifiedDJ ==
    LET h == HeaderGet(request.headers, "Authorization")
    IN  /\ h # NULL /\ h[1] = "Bearer" /\ h[2] # NULL
        /\ h[2].verify = "valid"
        /\ h[2].role \in {<<"dj">>, <<"musicDirector">>, <<"stationManager">>,
                          <<"admin">>}

\* The window of the caller's verified tier.
tierDays == IF verifiedDJ THEN djConfig ELSE defaultConfig

outsideRangeError == <<"File is outside the allowed date range">>

(* C21 as stated.  A url is returned only for an instant within            *)
(* [now - windowDays, now] of the caller's verified tier, and every        *)
(* request for an instant outside it is answered 403 'File is outside the  *)
(* allowed date range' with no url.                                        *)
C21_OutsideWindowAnswered403 ==
    answeredKey =>
        LET inside == WithinWindow(requestInstant, tierDays, now)
        IN  /\ response.url # NULL => inside
            /\ ~inside => /\ response.status = 403
                          /\ response.error = outsideRangeError
                          /\ response.url = NULL

(* C21 amended.  A url is returned only for an instant within the window   *)
(* of the caller's verified tier; a request for an instant outside it      *)
(* never gets a url, and is answered 403 'File is outside the allowed      *)
(* date range' whenever the module's S3 client was created (without the    *)
(* client every request with a key is answered 500 before its key is       *)
(* read).                                                                  *)
C21_OutsideWindowNeverSigned ==
    answeredKey =>
        LET inside == WithinWindow(requestInstant, tierDays, now)
        IN  /\ response.url # NULL => inside
            /\ ~inside => response.url = NULL
            /\ (~inside /\ s3Client) => /\ response.status = 403
                                        /\ response.error = outsideRangeError
            /\ (~inside /\ ~s3Client) => response.status = 500

\* A DJ's request for an hour 91 days back was answered 403, and so was an
\* anonymous request for an hour 15 days back.
C21_Witness ==
    /\ answeredKey /\ s3Client
    /\ response.status = 403
    /\ \/ verifiedDJ /\ requestInstant < now - djConfig * DayTicks
       \/ ~verifiedDJ /\ requestInstant < now - defaultConfig * DayTicks

(* C22.  The 90-day window is applied only when the Authorization header   *)
(* verifies and the role is dj, musicDirector, stationManager or admin; a  *)
(* missing header, a failed verification or a lower role is served with    *)
(* the 14-day window and is not rejected for its credentials.              *)
C22_DJWindowOnlyForVerifiedDJ ==
    (answeredKey /\ s3Client) =>
        /\ verifiedDJ =>
              (response.status = 403
                  <=> ~WithinWindow(requestInstant, djConfig, now))
        /\ ~verifiedDJ =>
              (response.status = 403
                  <=> ~WithinWindow(requestInstant, defaultConfig, now))
        /\ response.status \in {200, 403, 500}
        /\ response.status = 500 => response.error = <<"Failed to generate signed URL">>

\* A verified member's request for an hour of the last 14 days got its url.
C22_Witness ==
    /\ answeredKey /\ s3Client
    /\ HeaderGet(request.headers, "Authorization")
           = <<"Bearer", [verify |-> "valid", role |-> <<"member">>]>>
    /\ WithinWindow(requestInstant, defaultConfig, now)
    /\ response.status = 200 /\ response.url = request.body.key

(* C23.  On every time-update event of the media element at position t    *)
(* the player reports the position upward, so that afterwards the          *)
(* selection's minute is floor(t / 60) and its second floor(t mod 60).     *)
C23_TimeUpdateReportsPosition ==
    [][(\E position \in SharePositions : audioTimeUpdate(position))
          => /\ selectedMinute' = currentTime' \div 60
             /\ selectedSecond' = currentTime' % 60]_vars

----------------------------------------------------------------------------
(* Vocabulary of the hand-off's properties.                                *)

\* The selection was just advanced by an ended event, to an hour inside
\* the access window.
handOffStarted ==
    /\ last # NULL /\ last[1] = "ended"
    /\ isTransitioning
    /\ <<selectedDate, selectedHour>>
           = <<nextHour(last[2], last[3]).date, nextHour(last[2], last[3]).hour>>
    /\ WithinWindow(InstantOf(selectedDate, selectedHour), currentDays, now)

\* The recording of this hour is loaded and playing, no transition pending.
playingHour(date, hour) ==
    /\ isPlaying /\ ~isTransitioning /\ ~isLoading
    /\ audioUrl = ArchiveKey(date, hour)

\* The hours a hand-off can lead to: the successors of the hours the
\* behaviours start from.
AdvanceTargets ==
    { <<nextHour(s[1], s[2]).date, nextHour(s[1], s[2]).hour>> :
        s \in { <<initialStateOf(link).date, initialStateOf(link).hour>> :
                  link \in AdvanceLinks \ {NULL} }
              \cup { <<yesterdayOf(clock), 12>> : clock \in PlayClocks } }

staleListener ==
    \E i \in DOMAIN canplayListeners : canplayListeners[i].url # audioUrl

(* C25.  After a new url is assigned no handler registered for the         *)
(* previous url mutates the session: every canplay handler that runs was   *)
(* registered for the present url, so it seeks to the present initial      *)
(* offset and plays or clears isTransitioning only for the present load.   *)
C25_NoStaleCanPlay ==
    [][handleCanPlay => ~staleListener]_vars

\* A step that sets a new selection (navigator step, date or hour pick,
\* auto-advance).
freshSelection == navs' = navs + 1

(* C26.  A fresh hour selection that is not a deep link leaves the         *)
(* selection's minute and second at 0, so the hour starts at position 0    *)
(* and the t parameter written for it ends in 0000.                        *)
C26_FreshSelectionStartsAtZero ==
    [][ freshSelection =>
          /\ selectedMinute' = 0 /\ selectedSecond' = 0
          /\ initialTime' = 0
          /\ (pendingNav' # pendingNav /\ pendingNav' # NULL)
                 => SubSeq(pendingNav', 11, 14) = <<"0", "0", "0", "0">> ]_vars

(* C27.  While the auth provider reports isLoading = true the page makes   *)
(* no tier-dependent decision: no deep link has been classified as out of  *)
(* range (no banner is shown) and no resolver call has been issued.        *)
C27_NoDecisionWhileAuthLoading ==
    authLoading => (invalidLinkReason = NULL /\ inflight = {})

(* C28.  In every reachable state, also after loading any 14-character t   *)
(* parameter, the selection has hour in 0..23, minute in 0..59 and second  *)
(* in 0..59, and no resolver call asks for an hour above 23.               *)
C28_SelectionFieldsInRange ==
    /\ selectedHour \in 0..(HoursPerDay - 1)
    /\ selectedMinute \in 0..59
    /\ selectedSecond \in 0..59
    /\ \A call \in inflight : call.hour \in 0..(HoursPerDay - 1)

\* A hand-off to another hour is under way: its resolver call is in flight,
\* or its url is loading, or a canplay handler is still to run.
handOffPending ==
    inflight # {} \/ isLoading \/ canplayListeners # <<>>

(* C29.  isTransitioning is true only between an ended event and the       *)
(* completion of the hand-off to the next hour, and while it is true an    *)
(* ended event does not change the selection again.                        *)
C29_TransitionOnlyDuringHandOff ==
    /\ [](isTransitioning => handOffPending)
    /\ [][ (handleAudioEnded /\ isTransitioning)
              => UNCHANGED <<selectedDate, selectedHour>> ]_vars

(* C30.  Whenever audioUrl becomes null the session is reset: isLoading    *)
(* false, error null, position 0, duration 0, isPlaying false.  Whenever a *)
(* new non-null url is assigned the session is loading with error null,    *)
(* and loading ends only by loadedmetadata, by an error event or by the    *)
(* url becoming null.                                                      *)
C30_UrlChangeResetsSession ==
    /\ [][ (audioUrl # NULL /\ audioUrl' = NULL)
              => ( /\ ~isLoading' /\ error' = NULL /\ ~isPlaying'
                   /\ currentTime' = 0 /\ duration' = 0 ) ]_vars
    /\ [][ (audioUrl' # NULL /\ audioUrl' # audioUrl)
              => (isLoading' /\ error' = NULL) ]_vars
    /\ [][ (isLoading /\ ~isLoading')
              => ( \/ audioUrl' = NULL
                   \/ onError
                   \/ \E ready \in BOOLEAN : handleLoadedMetadata(ready) ) ]_vars

\* A recording was loaded and ended, its successor's url failed to resolve
\* (duration back to 0), and a url assigned after that is loading.
C30_Witness ==
    /\ isTransitioning /\ duration = 0
    /\ audioUrl # NULL /\ isLoading /\ error = NULL

(* C31.  Once error is set it stays set through every play, pause, seek,   *)
(* mute and media event: it is cleared only by a step that changes the     *)
(* url, and while the url is the same the player does not go back to       *)
(* loading it.                                                             *)
C31_ErrorStaysUntilUrlChanges ==
    [][ (error # NULL /\ audioUrl' = audioUrl)
          => (error' # NULL /\ ~isLoading') ]_vars

\* The error is displayed and the user has just muted, after a seek and
\* with the play state toggled on.
C31_Witness ==
    /\ error # NULL /\ audioUrl # NULL
    /\ last = <<"mute">> /\ keys > 0 /\ isPlaying

\* The timestamp or the authentication state changes in this step.
linkOrAuthChanges ==
    timestamp' # timestamp \/ isAuthenticated' # isAuthenticated

(* C32.  After the banner is dismissed it stays hidden while the timestamp *)
(* and the authentication state are unchanged; a change of either resets   *)
(* the dismissal and classifies again, so that a link still outside the    *)
(* caller's window shows its banner again.                                 *)
C32_DismissalStickyUntilChange ==
    /\ [][ (userDismissed /\ ~linkOrAuthChanges)
              => (userDismissed' /\ invalidLinkReason' = NULL) ]_vars
    /\ [][ linkOrAuthChanges => ~userDismissed' ]_vars
    /\ [][ ( /\ userDismissed /\ linkOrAuthChanges
             /\ linkDecodes'
             /\ ~WithinWindow(linkDate', currentDays', today') )
              => invalidLinkReason' # NULL ]_vars

\* The banner was dismissed, the user then signed in or out, and the
\* banner is shown again.
C32_Witness ==
    /\ last = <<"auth", TRUE>>
    /\ ~userDismissed /\ invalidLinkReason # NULL

(* C33.  No recoverable condition escapes as an uncaught exception or an   *)
(* unhandled promise rejection: a malformed link, a selection outside the  *)
(* window, a resolver denial or failure and a rejected play request are    *)
(* all absorbed into the state.                                            *)
C33_NothingEscapes == uncaught = {}

(* C34.  In every state with no resolver call in flight, audioUrl = null   *)
(* implies isPlaying = false: after Listen Now and a failed resolver call  *)
(* isPlaying does not remain true with no url.                             *)
C34_NoUrlNotPlaying ==
    (inflight = {} /\ audioUrl = NULL) => ~isPlaying

(* C35.  isTransitioning does not stay true forever: also when the         *)
(* resolver call made for an auto-advance fails it is eventually cleared.  *)
C35_TransitionEventuallyCleared == isTransitioning ~> ~isTransitioning

(* C36.  Whenever error is non-null, isPlaying is false: neither the play  *)
(* button, the Space key nor a media play event makes the session Playing *)
(* while the error is displayed.                                           *)
C36_ErroredNotPlaying == error # NULL => ~isPlaying

(* C37.  If an hour is loaded and paused when the user steps or picks      *)
(* another hour, isPlaying is still false after the new url resolves: a    *)
(* resolver answer starts playback only for the link the page was loaded   *)
(* with.                                                                   *)
C37_PausedStaysPausedAfterStep ==
    [][ ( /\ last # NULL /\ last[1] = "changeHour"
          /\ navs > 0 /\ ~isPlaying /\ audioUrl # NULL /\ error = NULL
          /\ audioUrl' # audioUrl
          /\ audioUrl' = ArchiveKey(selectedDate, selectedHour) )
           => ~isPlaying' ]_vars

\* The client lets a step to newDate through: neither the player's
\* changeHour nor the page's handleHourChange returns early.
clientAdmits(newDate) == ~playerRefuses(newDate) /\ ~pageRefuses(newDate)

(* C38.  The client's pre-check and the endpoint's check agree: for the    *)
(* same clock and tier (here the default tier, a signed-out user), the     *)
(* hour a step leads to passes the navigator's and the page's range checks *)
(* exactly when the endpoint's window check admits its file.               *)
C38_ClientAndServerAgree ==
    [][ (last' # NULL /\ last'[1] = "changeHour" /\ ~isAuthenticated) =>
          LET new == stepHour(selectedDate, selectedHour, last'[4])
          IN  clientAdmits(new.date) <=>
                  ServerAdmits(ResolverCall(new.date, new.hour,
                                            isAuthenticated, timestamp), now)
      ]_vars

\* The step is a login call that returned {success: false}.
loginFailed == last' # NULL /\ last'[1] = "login"

(* C39.  A login call that returns {success: false} leaves the auth state  *)
(* unchanged: session, user, userRole and isAuthenticated are what they    *)
(* were before the call, whatever the cause of the failure.                *)
C39_FailedLoginChangesNothing ==
    [][ loginFailed =>
          /\ UNCHANGED <<session, user, isAuthenticated>>
          /\ userRole' = userRole ]_vars

(* C39, amended.  A login call that returns {success: false} leaves        *)
(* isAuthenticated unchanged; it leaves session, user and userRole         *)
(* unchanged too unless the cause is a role below DJ, and then session and *)
(* user are those of the account that signed in, with its role.            *)
C39_FailedLoginKeepsAuthenticated ==
    [][ loginFailed =>
          /\ UNCHANGED isAuthenticated
          /\ IF last'[2] = "role"
             THEN /\ session' = Session1 /\ user' = MemberUser
                  /\ userRole' = <<"member">>
             ELSE /\ UNCHANGED <<session, user>>
                  /\ userRole' = userRole ]_vars

\* A login refused for its role has stored the member's session.
C39_Witness ==
    /\ last = <<"login", "role">>
    /\ session = Session1 /\ user = MemberUser /\ ~isAuthenticated

(* C40.  isLoadingUrl is true exactly while at least one resolver call is *)
(* in flight: with two overlapping calls, the completion of the first does *)
(* not clear it while the second is still pending.                         *)
C40_LoadingWhileInFlight == isLoadingUrl <=> inflight # {}

====
